---- MODULE Spec2Model ----
(***************************************************************************)
(* EMQL front end of the alerter package: the rune-based Lexer and the     *)
(* LL(2) recursive-descent Parser.                                         *)
(*                                                                         *)
(* A query is a sequence of runes (one-character strings).  A token is a   *)
(* sequence of runes as well; Str turns it into a TLA+ string so that it   *)
(* can be compared with the literals of the source ("select", "group by"). *)
(* A Go panic (nil dereference of currentRune in Lexer.peek) is modelled   *)
(* by the sticky flag `panicked` of the lexer.                             *)
(***************************************************************************)
EXTENDS Integers, Sequences, FiniteSets, TLC

VARIABLES query, pc, lexer, trace, parser, result, kept, equal, outcome, call, alerter

vars == <<query, pc, lexer, trace, parser, result, kept, equal, outcome, call, alerter>>

\* what a test holds besides the lexer, the parser and the parsed statement:
\* the tree of an earlier parse and the results of Equals
aux == <<kept, equal, outcome, call, alerter>>

\* the nil pointer / nil error
Nil == "<nil>"

(***************************************************************************)
(* Runes and strings                                                       *)
(***************************************************************************)
RECURSIVE Str(_)
\* string(runes) / bytes.Buffer.String(): the Go string of a rune sequence
Str(cs) == IF cs = <<>> THEN "" ELSE Head(cs) \o Str(Tail(cs))

UpperRunes == <<"A","B","C","D","E","F","G","H","I","J","K","L","M",
                "N","O","P","Q","R","S","T","U","V","W","X","Y","Z">>
LowerRunes == <<"a","b","c","d","e","f","g","h","i","j","k","l","m",
                "n","o","p","q","r","s","t","u","v","w","x","y","z">>
DigitRunes == <<"0","1","2","3","4","5","6","7","8","9">>

\* a letter outside ASCII (U+00E9) and a digit outside ASCII (U+0663)
NonAsciiLetter == "U+00E9"
NonAsciiDigit == "U+0663"

Range(s) == {s[i] : i \in 1..Len(s)}

\* unicode.IsLetter
IsLetter(c) == c \in Range(UpperRunes) \cup Range(LowerRunes) \cup {NonAsciiLetter}

\* unicode.IsDigit
IsDigit(c) == c \in Range(DigitRunes) \cup {NonAsciiDigit}

\* unicode.IsSpace
IsSpace(c) == c \in {" ", "\t", "\n", "\r"}

\* unicode.ToLower on one rune
ToLowerRune(c) ==
    IF c \in Range(UpperRunes)
    THEN LowerRunes[CHOOSE i \in 1..Len(UpperRunes) : UpperRunes[i] = c]
    ELSE c

\* strings.ToLower
ToLower(cs) == [i \in 1..Len(cs) |-> ToLowerRune(cs[i])]

\* strings.HasPrefix
HasPrefix(cs, pre) == Len(cs) >= Len(pre) /\ SubSeq(cs, 1, Len(pre)) = pre

(***************************************************************************)
(* Lexer                                                                   *)
(***************************************************************************)
caseInsensitiveTokens ==
    {"select", "from", "as", "where", "since", "until", "group by", "null",
     "contract", "and", "or", "not", "blocks", "transactions", "is", "in"}

\* Lexer.IsDone
IsDone(l) == l.currentRune = Nil

\* a nil dereference in Lexer.peek aborts the goroutine
Panic(l) == [l EXCEPT !.panicked = TRUE]

\* Lexer.peek; callers check IsDone first where the code does, and
\* PeekPanics tells where the code dereferences a nil currentRune
PeekPanics(l) == l.currentRune = Nil
peek(l) == l.currentRune

\* Lexer.advance
advance(l) ==
    IF l.pos < Len(l.reader)
    THEN [l EXCEPT !.currentRune = l.reader[l.pos + 1], !.pos = l.pos + 1]
    ELSE [l EXCEPT !.currentRune = Nil]

RECURSIVE skipWhitespaces(_)
\* Lexer.skipWhitespaces
skipWhitespaces(l) ==
    IF ~IsDone(l) /\ IsSpace(peek(l)) THEN skipWhitespaces(advance(l)) ELSE l

RECURSIVE readStringLoop(_, _, _, _), readStringNext(_, _, _)
\* the for loop of Lexer.readString: the test and the first half of the body
readStringLoop(l, buffer, c, escaped) ==
    IF escaped \/ c # "\""
    THEN readStringNext(advance(l), Append(buffer, c), c = "\\")
    ELSE [l |-> [advance(l) EXCEPT !.currentToken = Append(buffer, "\"")],
          err |-> Nil]

\* the for loop of Lexer.readString: the body after l.advance()
readStringNext(l, buffer, escaped) ==
    IF IsDone(l)
    THEN [l |-> l, err |-> "reached EOS inside string"]
    ELSE readStringLoop(l, buffer, peek(l), escaped)

\* Lexer.readString after its first l.advance(): c := l.peek() and the loop
readStringBody(l) ==
    IF PeekPanics(l)
    THEN [l |-> Panic(l), err |-> Nil]
    ELSE readStringLoop(l, <<"\"">>, peek(l), FALSE)

\* Lexer.readString
readString(l) == readStringBody(advance(l))

\* Lexer.readSymbol
readSymbol(l, c) ==
    IF c \in {"<", ">"} /\ PeekPanics(l)
    THEN Panic(l)
    ELSE IF c = "<" /\ peek(l) = ">"
         THEN [advance(l) EXCEPT !.currentToken = <<"<", ">">>]
         ELSE IF (c = ">" \/ c = "<") /\ peek(l) = "="
              THEN [advance(l) EXCEPT !.currentToken = <<c, peek(l)>>]
              ELSE [l EXCEPT !.currentToken = <<c>>]

RECURSIVE skipLineLoop(_)
\* the for loop of Lexer.skipLine
skipLineLoop(l) ==
    IF ~IsDone(l) /\ peek(l) # "\n" THEN skipLineLoop(advance(l)) ELSE l

\* Lexer.skipLine
skipLine(l) == advance(skipLineLoop(l))

RECURSIVE readWordLoop(_, _, _), readWordNext(_, _)
\* the for loop of Lexer.readToken that reads letters, digits and '_'
readWordLoop(l, buffer, c) ==
    IF IsLetter(c) \/ IsDigit(c) \/ c = "_"
    THEN readWordNext(advance(l), Append(buffer, c))
    ELSE [l |-> l, buffer |-> buffer]

\* the body of that loop after l.advance()
readWordNext(l, buffer) ==
    IF IsDone(l) THEN [l |-> l, buffer |-> buffer]
    ELSE readWordLoop(l, buffer, peek(l))

\* the end of Lexer.readToken: currentToken is the word, lower-cased when
\* its lower-cased form is a case-insensitive token
setWordToken(l, word, lowered) ==
    [l |-> [l EXCEPT !.currentToken =
                 IF Str(lowered) \in caseInsensitiveTokens THEN lowered ELSE word],
     err |-> Nil]

readWord(w) == setWordToken(w.l, w.buffer, ToLower(w.buffer))

RECURSIVE readToken(_)

\* Lexer.readToken for a rune c that is no letter and no digit, after
\* l.advance(): a line comment, or a symbol
readSymbolOrComment(l, c) ==
    IF c = "-" /\ PeekPanics(l)
    THEN [l |-> Panic(l), err |-> Nil]
    ELSE IF c = "-" /\ peek(l) = "-"
         THEN readToken(skipLine(l))
         ELSE [l |-> readSymbol(l, c), err |-> Nil]

\* Lexer.readToken after l.skipWhitespaces()
readTokenFrom(l) ==
    IF IsDone(l)
    THEN [l |-> [l EXCEPT !.hasNext = FALSE], err |-> Nil]
    ELSE IF peek(l) = "\""
         THEN readString(l)
         ELSE IF ~(IsLetter(peek(l)) \/ IsDigit(peek(l)))
              THEN readSymbolOrComment(advance(l), peek(l))
              ELSE readWord(readWordLoop(l, <<>>, peek(l)))

\* Lexer.readToken
readToken(l) == readTokenFrom(skipWhitespaces([l EXCEPT !.hasNext = TRUE]))

\* NewLexer: the error of the first readToken is dropped
NewLexer(q) ==
    readToken(advance([reader |-> q, pos |-> 0, hasNext |-> FALSE,
                       currentToken |-> <<>>, currentRune |-> Nil,
                       panicked |-> FALSE])).l

\* Lexer.NextToken when group and by are fused: r is the second readToken
fuseGroupBy(r) ==
    [l |-> r.l, token |-> <<"g","r","o","u","p"," ","b","y">>, hasNext |-> TRUE,
     err |-> r.err]

\* Lexer.NextToken after its first l.readToken(), whose result is r
nextTokenAfterRead(token, r) ==
    IF r.l.panicked
    THEN [l |-> r.l, token |-> <<>>, hasNext |-> FALSE, err |-> Nil]
    ELSE IF r.err # Nil
         THEN [l |-> r.l, token |-> <<>>, hasNext |-> FALSE, err |-> r.err]
         ELSE IF Str(token) = "group" /\ Str(r.l.currentToken) = "by"
              THEN fuseGroupBy(readToken(r.l))
              ELSE [l |-> r.l, token |-> token, hasNext |-> TRUE, err |-> Nil]

\* Lexer.NextToken; the result carries the lexer after the call
NextToken(l) ==
    IF ~l.hasNext
    THEN [l |-> l, token |-> <<>>, hasNext |-> FALSE, err |-> Nil]
    ELSE nextTokenAfterRead(l.currentToken, readToken(l))

(***************************************************************************)
(* Numbers and literals                                                    *)
(***************************************************************************)
HexLowerRunes == <<"a","b","c","d","e","f">>
HexUpperRunes == <<"A","B","C","D","E","F">>

Index(s, c) == CHOOSE i \in 1..Len(s) : s[i] = c

\* the value of rune c as a digit of the base, or -1
DigitVal(c, base) ==
    IF c \in Range(DigitRunes) THEN Index(DigitRunes, c) - 1
    ELSE IF base = 16 /\ c \in Range(HexLowerRunes) THEN 9 + Index(HexLowerRunes, c)
    ELSE IF base = 16 /\ c \in Range(HexUpperRunes) THEN 9 + Index(HexUpperRunes, c)
    ELSE -1

AllDigits(cs, base) == cs # <<>> /\ \A i \in 1..Len(cs) : DigitVal(cs[i], base) >= 0

RECURSIVE DigitsValue(_, _)
DigitsValue(cs, base) ==
    IF cs = <<>> THEN 0
    ELSE DigitsValue(SubSeq(cs, 1, Len(cs) - 1), base) * base + DigitVal(cs[Len(cs)], base)

RECURSIVE StripZeros(_)
StripZeros(cs) == IF cs # <<>> /\ Head(cs) = "0" THEN StripZeros(Tail(cs)) ELSE cs

RECURSIVE DigitsLess(_, _, _)
\* a < b for two digit strings of the same length
DigitsLess(a, b, base) ==
    IF a = <<>> THEN FALSE
    ELSE IF DigitVal(Head(a), base) # DigitVal(Head(b), base)
         THEN DigitVal(Head(a), base) < DigitVal(Head(b), base)
         ELSE DigitsLess(Tail(a), Tail(b), base)

\* the digits of math.MaxInt64 = 1<<63 - 1 in base 10 and in base 16
MaxInt64Digits(base) ==
    IF base = 10
    THEN <<"9","2","2","3","3","7","2","0","3","6","8","5","4","7","7","5","8","0","7">>
    ELSE <<"7","f","f","f","f","f","f","f","f","f","f","f","f","f","f","f">>

\* the digit string is a number above math.MaxInt64
AboveMaxInt64(cs, base) ==
    LET d == StripZeros(cs)
        m == MaxInt64Digits(base)
    IN  Len(d) > Len(m) \/ (Len(d) = Len(m) /\ DigitsLess(m, d, base))

\* strconv.ParseInt(s, base, 64) on a token (a token holds no sign)
ParseInt(cs, base) ==
    IF ~AllDigits(cs, base) THEN [ok |-> FALSE, value |-> 0, err |-> "invalid syntax"]
    ELSE IF AboveMaxInt64(cs, base)
         THEN [ok |-> FALSE, value |-> 0, err |-> "value out of range"]
         ELSE [ok |-> TRUE, value |-> DigitsValue(cs, base), err |-> Nil]

\* big.NewInt(0).SetString(s, base) on a token: arbitrary precision
SetString(cs, base) ==
    IF AllDigits(cs, base) THEN [ok |-> TRUE, value |-> DigitsValue(cs, base)]
    ELSE [ok |-> FALSE, value |-> 0]

\* the runes strconv.Unquote produces for the one-letter escapes
ControlRune(c) == "U+" \o c

RECURSIVE unquoteChars(_, _)
\* the loop of strconv.Unquote over the text between the double quotes
unquoteChars(cs, out) ==
    IF cs = <<>> THEN [ok |-> TRUE, value |-> out]
    ELSE LET c == Head(cs)
         IN  IF c = "\"" \/ c = "\n" THEN [ok |-> FALSE, value |-> <<>>]
             ELSE IF c # "\\" THEN unquoteChars(Tail(cs), Append(out, c))
             ELSE IF Len(cs) < 2 THEN [ok |-> FALSE, value |-> <<>>]
             ELSE LET e == cs[2]
                      rest == SubSeq(cs, 3, Len(cs))
                  IN  IF e \in {"a", "b", "f", "n", "r", "t", "v"}
                      THEN unquoteChars(rest, Append(out, ControlRune(e)))
                      ELSE IF e \in {"\\", "\""}
                           THEN unquoteChars(rest, Append(out, e))
                           ELSE IF e = "x" /\ Len(rest) >= 2
                                   /\ AllDigits(SubSeq(rest, 1, 2), 16)
                                THEN unquoteChars(SubSeq(rest, 3, Len(rest)),
                                         Append(out, "U+x" \o Str(ToLower(SubSeq(rest, 1, 2)))))
                                ELSE [ok |-> FALSE, value |-> <<>>]

\* strconv.Unquote of a double-quoted token (the escapes \u, \U and octal,
\* which no query of the model uses, are syntax errors here)
Unquote(cs) ==
    IF Len(cs) < 2 \/ Head(cs) # "\"" \/ cs[Len(cs)] # "\""
    THEN [ok |-> FALSE, value |-> <<>>]
    ELSE unquoteChars(SubSeq(cs, 2, Len(cs) - 1), <<>>)

\* IsValidIdentifier
IsValidIdentifier(value) ==
    /\ Len(value) # 0
    /\ \A i \in 1..Len(value) :
          ~(~IsLetter(value[i]) /\ value[i] # "_" /\ (i = 1 \/ ~IsDigit(value[i])))

\* StartsWithDigit
StartsWithDigit(value) == value # <<>> /\ IsDigit(value[1])

(***************************************************************************)
(* AST constructors.  A nil interface or struct pointer is NilNode; a      *)
(* *int64 is the empty sequence (nil) or the one-element sequence <<v>>.   *)
(***************************************************************************)
NilNode == [kind |-> "nil"]

arithBinaryOperators == {"+", "-", "*", "/", "%"}
comparisonBinaryOperators == {">", ">=", "<", "<=", "=", "<>"}
boolBinaryOperators == {"and", "or"}
intUnaryOperators == {"+", "-"}
boolUnaryOperators == {"not"}

\* IsComparisonOperator
IsComparisonOperator(rawOperator) == rawOperator \in comparisonBinaryOperators

\* NewIntValue
NewIntValue(value) == [kind |-> "IntValue", value |-> value]

\* NewStringValue
NewStringValue(value) == [kind |-> "StringValue", value |-> value]

\* NewAttribute
NewAttribute(parts) == [kind |-> "Attribute", Parts |-> parts]

\* NewFunctionCall storing the name as it is written
NewFunctionCallVerbatim(name, arguments) ==
    [kind |-> "FunctionCall", FunctionName |-> name, Arguments |-> arguments]

\* NewFunctionCall
NewFunctionCall(name, arguments) ==
    [kind |-> "FunctionCall", FunctionName |-> ToLower(name), Arguments |-> arguments]

\* NewIntBinOperator: the operator object, or NilNode with an error
NewIntBinOperator(rawOperator) ==
    IF rawOperator \in arithBinaryOperators
    THEN [op |-> [Name |-> rawOperator, Operator |-> "wrapIntBinary"], err |-> Nil]
    ELSE IF rawOperator \in comparisonBinaryOperators
         THEN [op |-> [Name |-> rawOperator, Operator |-> "wrapCompBinary"], err |-> Nil]
         ELSE [op |-> NilNode, err |-> "expected a binary operator on ints"]

\* NewCompOperator
NewCompOperator(rawOperator) ==
    IF rawOperator \in comparisonBinaryOperators
    THEN [op |-> [Name |-> rawOperator, Operator |-> "wrapCompBinary"], err |-> Nil]
    ELSE [op |-> NilNode, err |-> "expected a comparison operator"]

\* NewBoolBinOperator
NewBoolBinOperator(rawOperator) ==
    IF rawOperator \in boolBinaryOperators
    THEN [op |-> [Name |-> rawOperator, Operator |-> "wrapBoolBinary"], err |-> Nil]
    ELSE [op |-> NilNode, err |-> "expected a boolean operator"]

\* NewIntUnaryOperator
NewIntUnaryOperator(rawOperator) ==
    IF rawOperator \in intUnaryOperators
    THEN [op |-> [Name |-> rawOperator, Operator |-> "wrapIntUnary"], err |-> Nil]
    ELSE [op |-> NilNode, err |-> "operator not found"]

\* NewBoolUnaryOperator
NewBoolUnaryOperator(rawOperator) ==
    IF rawOperator \in boolUnaryOperators
    THEN [op |-> [Name |-> rawOperator, Operator |-> "wrapBoolUnary"], err |-> Nil]
    ELSE [op |-> NilNode, err |-> "operator not found"]

BinaryApplication(left, right, operator) ==
    [kind |-> "BinaryApplication", Left |-> left, Right |-> right, Operator |-> operator]

UnaryApplication(operand, operator) ==
    [kind |-> "UnaryApplication", Operand |-> operand, Operator |-> operator]

\* NewIntBinaryApplication
NewIntBinaryApplication(left, right, rawOperator) ==
    LET o == NewIntBinOperator(rawOperator)
    IN  IF o.err # Nil THEN [val |-> NilNode, err |-> o.err]
        ELSE [val |-> BinaryApplication(left, right, o.op), err |-> Nil]

\* NewCompBinaryApplication
NewCompBinaryApplication(left, right, rawOperator) ==
    LET o == NewCompOperator(rawOperator)
    IN  IF o.err # Nil THEN [val |-> NilNode, err |-> o.err]
        ELSE [val |-> [kind |-> "PredBinaryApplication",
                       BinaryApplication |-> BinaryApplication(left, right, o.op)],
              err |-> Nil]

\* NewBoolBinaryApplication
NewBoolBinaryApplication(left, right, rawOperator) ==
    LET o == NewBoolBinOperator(rawOperator)
    IN  IF o.err # Nil THEN [val |-> NilNode, err |-> o.err]
        ELSE [val |-> [kind |-> "PredBinaryApplication",
                       BinaryApplication |-> BinaryApplication(left, right, o.op)],
              err |-> Nil]

\* NewIntUnaryApplication
NewIntUnaryApplication(operand, rawOperator) ==
    LET o == NewIntUnaryOperator(rawOperator)
    IN  IF o.err # Nil THEN [val |-> NilNode, err |-> o.err]
        ELSE [val |-> UnaryApplication(operand, o.op), err |-> Nil]

\* NewPredUnaryApplication
NewPredUnaryApplication(operand, rawOperator) ==
    LET o == NewBoolUnaryOperator(rawOperator)
    IN  IF o.err # Nil THEN [val |-> NilNode, err |-> o.err]
        ELSE [val |-> [kind |-> "PredUnaryApplication",
                       UnaryApplication |-> UnaryApplication(operand, o.op)],
              err |-> Nil]

\* NegatePredicate
NegatePredicate(operand) == NewPredUnaryApplication(operand, "not").val

\* NewInOperator
NewInOperator(needle, haystack) ==
    [kind |-> "InOperator", Needle |-> needle, Haystack |-> haystack]

\* NewIsOperator
NewIsOperator(operand, target) ==
    [kind |-> "IsOperator", Operand |-> operand, Target |-> target]

\* NewBlockRef
NewBlockRef(blockNum) == [kind |-> "BlockRef", Number |-> blockNum]

\* NewGroupByClause
NewGroupByClause ==
    [kind |-> "GroupByClause", BlocksCount |-> <<>>, TransactionsCount |-> <<>>,
     Attributes |-> <<>>]

(***************************************************************************)
(* Parser.  A parse routine takes the parser p and returns the record      *)
(* [p, val, err]: the parser after the call and the two Go results.        *)
(* p.firstErr is a history field: the first error any routine raised.      *)
(***************************************************************************)
\* Equals of an operator looking at the type of other only
OperatorEqualsByType(a, other) ==
    (a.Operator \in {"wrapIntUnary", "wrapBoolUnary"})
        = (other.Operator \in {"wrapIntUnary", "wrapBoolUnary"})

\* GenericBinaryOperator.Equals and IntUnaryOperator.Equals, on an operator
\* of the same interface: other is of the receiver's type and has its name
OperatorEquals(a, other) ==
    /\ (a.Operator \in {"wrapIntUnary", "wrapBoolUnary"})
           = (other.Operator \in {"wrapIntUnary", "wrapBoolUnary"})
    /\ a.Name = other.Name

RECURSIVE Equals(_, _)
\* the Equals method of the node a, applied to the node other: the type
\* assertion on other, then the comparison field by field, a list element
\* by element once the lengths are the same.  The receiver is never nil.
Equals(a, other) ==
    CASE a.kind = "IntValue" -> other.kind = "IntValue" /\ a.value = other.value
      [] a.kind = "StringValue" -> other.kind = "StringValue" /\ a.value = other.value
      [] a.kind = "BoolValue" -> other.kind = "BoolValue" /\ a.value = other.value
      [] a.kind = "Attribute" ->
            /\ other.kind = "Attribute"
            /\ Len(a.Parts) = Len(other.Parts)
            /\ \A i \in 1..Len(a.Parts) : a.Parts[i] = other.Parts[i]
      [] a.kind = "BinaryApplication" ->
            /\ other.kind = "BinaryApplication"
            /\ OperatorEquals(a.Operator, other.Operator)
            /\ Equals(a.Left, other.Left)
            /\ Equals(a.Right, other.Right)
      [] a.kind = "PredBinaryApplication" ->
            /\ other.kind = "PredBinaryApplication"
            /\ Equals(a.BinaryApplication, other.BinaryApplication)
      [] a.kind = "UnaryApplication" ->
            /\ other.kind = "UnaryApplication"
            /\ OperatorEquals(a.Operator, other.Operator)
            /\ Equals(a.Operand, other.Operand)
      [] a.kind = "PredUnaryApplication" ->
            /\ other.kind = "PredUnaryApplication"
            /\ Equals(a.UnaryApplication, other.UnaryApplication)
      [] a.kind = "InOperator" ->
            /\ other.kind = "InOperator"
            /\ Equals(a.Needle, other.Needle)
            /\ Len(a.Haystack) = Len(other.Haystack)
            /\ \A i \in 1..Len(a.Haystack) : Equals(a.Haystack[i], other.Haystack[i])
      [] a.kind = "IsOperator" ->
            /\ other.kind = "IsOperator"
            /\ a.Target = other.Target
            /\ Equals(a.Operand, other.Operand)
      [] a.kind = "FunctionCall" ->
            /\ other.kind = "FunctionCall"
            /\ a.FunctionName = other.FunctionName
            /\ Len(a.Arguments) = Len(other.Arguments)
            /\ \A i \in 1..Len(a.Arguments) : Equals(a.Arguments[i], other.Arguments[i])

\* a method called through a nil pointer or a nil interface
PanicErr == "panic: nil pointer dereference"

(***************************************************************************)
(* Evaluation.  Execute returns a value and a nil error, or a nil value    *)
(* and an error, or it panics and the evaluation is aborted.               *)
(***************************************************************************)
Returns(v) == [val |-> v, err |-> Nil, panic |-> Nil]
Errorf(msg) == [val |-> NilNode, err |-> msg, panic |-> Nil]
Aborts(msg) == [val |-> NilNode, err |-> Nil, panic |-> msg]

\* NewBoolValue
NewBoolValue(value) == [kind |-> "BoolValue", value |-> value]

\* big.Int.Mod(x, y) for y # 0: the Euclidean modulus m, 0 <= m < |y|
BigMod(x, y) == x % (IF y < 0 THEN -y ELSE y)

\* big.Int.Div(x, y) for y # 0: the Euclidean quotient q, x = q*y + m
BigDiv(x, y) ==
    IF y < 0 THEN -((x - BigMod(x, y)) \div (-y)) ELSE (x - BigMod(x, y)) \div y

\* the function of arithBinaryOperators[name]; Div and Mod panic on a zero
\* divisor
IntBinaryFunction(name, a, b) ==
    CASE name = "+" -> Returns(NewIntValue(a + b))
      [] name = "-" -> Returns(NewIntValue(a - b))
      [] name = "*" -> Returns(NewIntValue(a * b))
      [] name = "/" -> IF b = 0 THEN Aborts("division by zero")
                       ELSE Returns(NewIntValue(BigDiv(a, b)))
      [] name = "%" -> IF b = 0 THEN Aborts("division by zero")
                       ELSE Returns(NewIntValue(BigMod(a, b)))

\* the function of comparisonBinaryOperators[name]
CompBinaryFunction(name, a, b) ==
    CASE name = ">" -> a > b
      [] name = ">=" -> a >= b
      [] name = "<" -> a < b
      [] name = "<=" -> a <= b
      [] name = "=" -> a = b
      [] name = "<>" -> a # b

\* GenericBinaryOperator.Apply; a method called on a nil Value panics, and
\* so does ToBool on the IntValue that passed the IsInt check
Apply(operator, left, right) ==
    IF left = NilNode THEN Aborts(PanicErr)
    ELSE IF left.kind # "IntValue" THEN Errorf("cannot cast to int")
    ELSE IF right = NilNode THEN Aborts(PanicErr)
    ELSE IF right.kind # "IntValue" THEN Errorf("cannot cast to int")
    ELSE CASE operator.Operator = "wrapIntBinary" ->
                  IntBinaryFunction(operator.Name, left.value, right.value)
           [] operator.Operator = "wrapCompBinary" ->
                  Returns(NewBoolValue(CompBinaryFunction(operator.Name, left.value,
                                                          right.value)))
           [] operator.Operator = "wrapBoolBinary" ->
                  Aborts("cannot convert int to bool")

\* IntUnaryOperator.Apply
ApplyUnary(operator, operand) ==
    IF operand = NilNode THEN Aborts(PanicErr)
    ELSE IF operand.kind # "IntValue" THEN Errorf("could not cast to int")
    ELSE CASE operator.Operator = "wrapIntUnary" ->
                  Returns(NewIntValue(IF operator.Name = "-" THEN -operand.value
                                      ELSE operand.value))
           [] operator.Operator = "wrapBoolUnary" ->
                  Aborts("cannot convert int to bool")

\* the outcome r of a call, with the builtin functions called up to its end
After(r, calls) == [val |-> r.val, err |-> r.err, panic |-> r.panic, calls |-> calls]

\* err != nil after a call, or the call never came back
Failed(r) == r.panic # Nil \/ r.err # Nil

\* return nil, err
NoValue(r) == [r EXCEPT !.val = NilNode]

\* return false, err
NoBool(r) == [r EXCEPT !.val = FALSE]

\* an Env whose Functions are one, which returns the integer 1, and fail,
\* which returns an error
TestEnv == [Functions |-> [one |-> "one", fail |-> "fail"]]

\* function(e, args...) for the two functions of TestEnv
BuiltinFunction(function, args) ==
    IF function = "one" THEN Returns(NewIntValue(1)) ELSE Errorf("fail")

\* Env.ExecuteFunction
ExecuteFunction(e, name, args, calls) ==
    IF Str(name) \notin DOMAIN e.Functions
    THEN After(Errorf("unkonwn function"), calls)
    ELSE After(BuiltinFunction(e.Functions[Str(name)], args),
               Append(calls, [name |-> Str(name), args |-> args]))

RECURSIVE Execute(_, _, _)
RECURSIVE ExecuteBool(_, _, _)
RECURSIVE ExecuteList(_, _, _, _)

\* BinaryApplication.Execute after the operands: right, err := ...; Apply
ExecuteRight(a, left, right) ==
    IF Failed(right) THEN NoValue(right)
    ELSE After(Apply(a.Operator, left, right.val), right.calls)

\* BinaryApplication.Execute going on to the right operand and to the
\* operator whatever the left operand returned
ExecuteLeftThenRight(a, env, left) ==
    ExecuteRight(a, left.val, Execute(a.Right, env, left.calls))

\* BinaryApplication.Execute after the left operand: left, err := ...
ExecuteLeft(a, env, left) ==
    IF Failed(left) THEN NoValue(left)
    ELSE ExecuteRight(a, left.val, Execute(a.Right, env, left.calls))

\* UnaryApplication.Execute after the operand
ExecuteOperand(a, operand) ==
    IF Failed(operand) THEN NoValue(operand)
    ELSE After(ApplyUnary(a.Operator, operand.val), operand.calls)

\* one turn of the loops of FunctionCall.Execute and InOperator.ExecuteBool:
\* the outcome x of the next expression after the values of r
Collect(r, x) == [x EXCEPT !.val = IF Failed(x) THEN NilNode ELSE Append(r.val, x.val)]

\* for _, exp := range exps: the values of exps from the i-th on after
\* those of r, up to the first error
ExecuteList(exps, env, i, r) ==
    IF Failed(r) \/ i > Len(exps) THEN r
    ELSE ExecuteList(exps, env, i + 1, Collect(r, Execute(exps[i], env, r.calls)))

\* FunctionCall.Execute after the arguments
ExecuteCall(f, env, arguments) ==
    IF Failed(arguments) THEN arguments
    ELSE ExecuteFunction(env, f.FunctionName, arguments.val, arguments.calls)

\* PredBinaryApplication.ExecuteBool and PredUnaryApplication.ExecuteBool
\* after Execute; IsBool of a nil Value panics
ExecuteBoolValue(r) ==
    IF Failed(r) THEN NoBool(r)
    ELSE IF r.val = NilNode THEN After(Aborts(PanicErr), r.calls)
    ELSE IF r.val.kind = "BoolValue" THEN [r EXCEPT !.val = r.val.value]
    ELSE [r EXCEPT !.val = FALSE, !.err = "expected bool"]

\* InOperator.ExecuteBool after the haystack: lhs.Equals(val) for each val;
\* Equals of a nil lhs panics
ExecuteBoolHaystack(lhs, rhs) ==
    IF Failed(rhs) THEN NoBool(rhs)
    ELSE IF Len(rhs.val) > 0 /\ lhs = NilNode THEN After(Aborts(PanicErr), rhs.calls)
    ELSE [rhs EXCEPT !.val = \E i \in 1..Len(rhs.val) : Equals(lhs, rhs.val[i])]

\* InOperator.ExecuteBool after the needle
ExecuteBoolNeedle(op, env, lhs) ==
    IF Failed(lhs) THEN NoBool(lhs)
    ELSE ExecuteBoolHaystack(lhs.val,
             ExecuteList(op.Haystack, env, 1, After(Returns(<<>>), lhs.calls)))

\* IsOperator.ExecuteBool after the operand: false, err or false, nil
ExecuteBoolOperand(r) == NoBool(r)

\* ExecuteBool of the predicates
ExecuteBool(n, env, calls) ==
    CASE n.kind = "BoolValue" -> After(Returns(n.value), calls)
      [] n.kind = "PredBinaryApplication" ->
            ExecuteBoolValue(Execute(n.BinaryApplication, env, calls))
      [] n.kind = "PredUnaryApplication" ->
            ExecuteBoolValue(Execute(n.UnaryApplication, env, calls))
      [] n.kind = "InOperator" -> ExecuteBoolNeedle(n, env, Execute(n.Needle, env, calls))
      [] n.kind = "IsOperator" -> ExecuteBoolOperand(Execute(n.Operand, env, calls))

\* InOperator.Execute and IsOperator.Execute: return NewBoolValue(res), err
ExecuteWraps(r) == IF r.panic # Nil THEN NoValue(r) ELSE [r EXCEPT !.val = NewBoolValue(r.val)]

\* Execute of IntValue, StringValue and BoolValue (the value as it is), of
\* Attribute (nil, nil), of the applications (a predicate application has
\* the Execute of the application it embeds), of the IN and IS operators and
\* of FunctionCall
Execute(n, env, calls) ==
    CASE n.kind \in {"IntValue", "StringValue", "BoolValue"} -> After(Returns(n), calls)
      [] n.kind = "Attribute" -> After(Returns(NilNode), calls)
      [] n.kind = "BinaryApplication" -> ExecuteLeft(n, env, Execute(n.Left, env, calls))
      [] n.kind = "PredBinaryApplication" ->
            ExecuteLeft(n.BinaryApplication, env,
                        Execute(n.BinaryApplication.Left, env, calls))
      [] n.kind = "UnaryApplication" -> ExecuteOperand(n, Execute(n.Operand, env, calls))
      [] n.kind = "PredUnaryApplication" ->
            ExecuteOperand(n.UnaryApplication,
                           Execute(n.UnaryApplication.Operand, env, calls))
      [] n.kind \in {"InOperator", "IsOperator"} -> ExecuteWraps(ExecuteBool(n, env, calls))
      [] n.kind = "FunctionCall" ->
            ExecuteCall(n, env,
                        ExecuteList(n.Arguments, env, 1, After(Returns(<<>>), calls)))

LookAhead == 2

Panicked(p) == p.Lexer.panicked

Ok(p, val) == [p |-> p, val |-> val, err |-> Nil]

\* fmt.Errorf at the place an error starts
Raise(p, msg) ==
    [p |-> [p EXCEPT !.firstErr = IF @ = Nil THEN msg ELSE @], val |-> NilNode, err |-> msg]

WithVal(r, val) == [r EXCEPT !.val = val]

Fail(r) == WithVal(r, NilNode)

\* x, err := f(); if err != nil { return nil, err }; then the rest K
\* (as at parser.go lines 375-378)
Bind(r, K(_)) == IF r.err # Nil THEN Fail(r) ELSE K(r)

\* if err = f(); err != nil { return }: the named results keep the value v
\* (as at parser.go lines 184-186)
BindKeep(r, v, K(_)) == IF r.err # Nil THEN WithVal(r, v) ELSE K(r)

\* f() as a statement whose error is not looked at; then the rest K
\* (parser.go lines 366, 371, 407, 540, 582 and 602)
BindUnchecked(r, K(_)) == IF Panicked(r.p) THEN Fail(r) ELSE K(r)

\* return New...Application(...): the constructor's two results
App(p, app) == IF app.err # Nil THEN Raise(p, app.err) ELSE Ok(p, app.val)

\* Parser.peek
p_peek(p) == IF Len(p.buffer) = 0 THEN <<>> ELSE p.buffer[1]

\* Parser.peekN
p_peekN(p, n) == IF Len(p.buffer) <= n THEN <<>> ELSE p.buffer[n + 1]

\* Parser.isDone
isDone(p) == ~p.hasNext /\ Len(p.buffer) = 0

\* Parser.readToken after p.Lexer.NextToken(), whose result is r
readTokenResult(p, r) ==
    IF r.l.panicked
    THEN [p |-> [p EXCEPT !.Lexer = r.l], val |-> FALSE, err |-> PanicErr]
    ELSE IF r.err # Nil
         THEN WithVal(Raise([p EXCEPT !.Lexer = r.l], r.err), FALSE)
         ELSE Ok([p EXCEPT !.Lexer = r.l,
                           !.hasNext = r.hasNext,
                           !.buffer = IF r.hasNext THEN Append(@, r.token) ELSE @],
                 r.hasNext)

\* Parser.readToken: val is the hasNext result
p_readToken(p) == readTokenResult(p, NextToken(p.Lexer))

RECURSIVE p_advanceLoop(_)

\* the body of the refill loop of Parser.advance after p.readToken()
p_advanceNext(r) ==
    IF r.err # Nil THEN Fail(r)
    ELSE IF ~r.val THEN Ok(r.p, NilNode)
    ELSE p_advanceLoop(r.p)

\* the refill loop of Parser.advance
p_advanceLoop(p) ==
    IF Len(p.buffer) < LookAhead THEN p_advanceNext(p_readToken(p)) ELSE Ok(p, NilNode)

\* Parser.advance
p_advance(p) ==
    p_advanceLoop(IF Len(p.buffer) > 0 THEN [p EXCEPT !.buffer = Tail(@)] ELSE p)

\* NewParser
NewParser(l) ==
    p_advance([Lexer |-> l, buffer |-> <<>>, hasNext |-> TRUE, firstErr |-> Nil])

\* Parser.eatIdentifier
eatIdentifier(p) ==
    IF ~IsValidIdentifier(p_peek(p))
    THEN WithVal(Raise(p, "is not a valid identifier"), <<>>)
    ELSE WithVal(p_advance(p), p_peek(p))

\* Parser.eat
eat(p, token) ==
    IF Str(p_peek(p)) # token THEN Raise(p, "expected " \o token)
    ELSE p_advance(p)

\* eatIntLiteral reading every token in base 10
parseIntLiteralDecimal(token) == ParseInt(token, 10)

\* the strconv.ParseInt call of Parser.eatIntLiteral
parseIntLiteral(token) ==
    IF HasPrefix(token, <<"0", "x">>)
    THEN ParseInt(SubSeq(token, 3, Len(token)), 16)
    ELSE ParseInt(token, 10)

\* Parser.eatIntLiteral after strconv.ParseInt, whose result is r
eatIntLiteralResult(p, r) ==
    IF ~r.ok THEN WithVal(Raise(p, r.err), 0)
    ELSE WithVal(p_advance(p), r.value)

\* Parser.eatIntLiteral
eatIntLiteral(p) == eatIntLiteralResult(p, parseIntLiteral(p_peek(p)))

\* Parser.parseHex after SetString, whose result is r
parseHexResult(p, r) ==
    IF ~r.ok THEN Raise(p, "failed to parse int literal")
    ELSE WithVal(p_advance(p), r.value)

\* Parser.parseHex
parseHex(p) ==
    IF ~HasPrefix(p_peek(p), <<"0", "x">>) THEN Raise(p, "expected hex number")
    ELSE parseHexResult(p, SetString(SubSeq(p_peek(p), 3, Len(p_peek(p))), 16))

\* Parser.parseFrom
parseFrom(p) ==
    Bind(parseHex(p), LAMBDA r : WithVal(r, [kind |-> "FromClause", Address |-> r.val]))

\* Parser.parseBlockRef
parseBlockRef(p) ==
    Bind(eatIntLiteral(p), LAMBDA r : WithVal(r, NewBlockRef(r.val)))

RECURSIVE parseAttributeParts(_, _)
\* Parser.parseAttributeParts: the error of advance is not looked at
parseAttributeParts(p, parts) ==
    IF Str(p_peek(p)) = "."
    THEN BindUnchecked(p_advance(p), LAMBDA a :
             Bind(eatIdentifier(a.p), LAMBDA r :
                 parseAttributeParts(r.p, Append(parts, r.val))))
    ELSE Ok(p, NewAttribute(parts))

\* Parser.parseAttribute
parseAttribute(p) ==
    Bind(eatIdentifier(p), LAMBDA r : parseAttributeParts(r.p, <<r.val>>))

RECURSIVE parseExpression(_), parseRecExpression(_, _), parseTerm(_), parseRecTerm(_, _)
RECURSIVE parseUnary(_), parseFactor(_), parseFuncCall(_), parseExpList(_), parseExpListLoop(_, _, _)

\* the for loop of Parser.parseExpList: the error of advance is not looked at
parseExpListLoop(p, i, arguments) ==
    IF (i = 0 /\ Str(p_peek(p)) = "(") \/ (i > 0 /\ Str(p_peek(p)) = ",")
    THEN BindUnchecked(p_advance(p), LAMBDA a :
             Bind(parseExpression(a.p), LAMBDA r :
                 parseExpListLoop(r.p, i + 1, Append(arguments, r.val))))
    ELSE WithVal(eat(p, ")"), arguments)

\* Parser.parseExpList
parseExpList(p) == parseExpListLoop(p, 0, <<>>)

\* Parser.parseFuncCall
parseFuncCall(p) ==
    Bind(eatIdentifier(p), LAMBDA n :
        Bind(parseExpList(n.p), LAMBDA r :
            Ok(r.p, NewFunctionCall(n.val, r.val))))

\* Parser.parseFactor for a string literal, after strconv.Unquote
parseStringFactor(p, u) ==
    IF ~u.ok THEN Raise(p, "invalid syntax")
    ELSE WithVal(p_advance(p), NewStringValue(u.value))

\* Parser.parseFactor for a decimal literal, after SetString
parseIntFactor(p, r) ==
    IF ~r.ok THEN Raise(p, "failed to parse int literal")
    ELSE WithVal(p_advance(p), NewIntValue(r.value))

\* Parser.parseFactor for a base 16 literal, after p.parseHex()
parseHexFactor(r) == WithVal(r, NewIntValue(r.val))

\* Parser.parseFactor
parseFactor(p) ==
    IF HasPrefix(p_peek(p), <<"\"">>)
    THEN parseStringFactor(p, Unquote(p_peek(p)))
    ELSE IF HasPrefix(p_peek(p), <<"0", "x">>)
    THEN parseHexFactor(parseHex(p))
    ELSE IF StartsWithDigit(p_peek(p))
    THEN parseIntFactor(p, SetString(p_peek(p), 10))
    ELSE IF Str(p_peek(p)) = "("
    THEN BindUnchecked(p_advance(p), LAMBDA a :
             Bind(parseExpression(a.p), LAMBDA r :
                 WithVal(eat(r.p, ")"), r.val)))
    ELSE IF IsValidIdentifier(p_peek(p))
    THEN IF Str(p_peekN(p, 1)) = "(" THEN parseFuncCall(p) ELSE parseAttribute(p)
    ELSE Raise(p, "expected factor")

\* Parser.parseUnary
parseUnary(p) ==
    IF Str(p_peek(p)) \in {"+", "-"}
    THEN Bind(p_advance(p), LAMBDA a :
             Bind(parseUnary(a.p), LAMBDA r :
                 App(r.p, NewIntUnaryApplication(r.val, Str(p_peek(p))))))
    ELSE parseFactor(p)

\* parseRecTerm taking + and - as operators of a term too
parseRecTermWithSums(p, left) ==
    IF Str(p_peek(p)) \in {"*", "/", "%", "+", "-"}
    THEN Bind(p_advance(p), LAMBDA a :
             Bind(parseUnary(a.p), LAMBDA r :
                 Bind(App(r.p, NewIntBinaryApplication(left, r.val, Str(p_peek(p)))),
                      LAMBDA x : parseRecTerm(x.p, x.val))))
    ELSE Ok(p, left)

\* Parser.parseRecTerm
parseRecTerm(p, left) ==
    IF Str(p_peek(p)) \in {"*", "/", "%"}
    THEN Bind(p_advance(p), LAMBDA a :
             Bind(parseUnary(a.p), LAMBDA r :
                 Bind(App(r.p, NewIntBinaryApplication(left, r.val, Str(p_peek(p)))),
                      LAMBDA x : parseRecTerm(x.p, x.val))))
    ELSE Ok(p, left)

\* Parser.parseTerm
parseTerm(p) == Bind(parseUnary(p), LAMBDA r : parseRecTerm(r.p, r.val))

\* parseRecExpression taking the whole rest of the expression as the right operand
parseRecExpressionRight(p, left) ==
    IF Str(p_peek(p)) \in {"+", "-"}
    THEN Bind(p_advance(p), LAMBDA a :
             Bind(parseExpression(a.p), LAMBDA r :
                 App(r.p, NewIntBinaryApplication(left, r.val, Str(p_peek(p))))))
    ELSE Ok(p, left)

\* Parser.parseRecExpression
parseRecExpression(p, left) ==
    IF Str(p_peek(p)) \in {"+", "-"}
    THEN Bind(p_advance(p), LAMBDA a :
             Bind(parseTerm(a.p), LAMBDA r :
                 Bind(App(r.p, NewIntBinaryApplication(left, r.val, Str(p_peek(p)))),
                      LAMBDA x : parseRecExpression(x.p, x.val))))
    ELSE Ok(p, left)

\* Parser.parseExpression
parseExpression(p) == Bind(parseTerm(p), LAMBDA r : parseRecExpression(r.p, r.val))

\* Parser.parseIn
parseIn(p, needle) ==
    Bind(eat(p, "in"), LAMBDA e :
        Bind(parseExpList(e.p), LAMBDA r :
            IF Len(r.val) = 0 THEN Raise(r.p, "empty list")
            ELSE Ok(r.p, NewInOperator(needle, r.val))))

RECURSIVE parseOrCondition(_), parseOrConditionRec(_, _), parseAndCondition(_)
RECURSIVE parseAndConditionRec(_, _), parseNegatablePredicate(_), parseSimplePredicate(_)
RECURSIVE parsePredicateTail(_, _, _), parseIsTail(_, _, _)

\* Parser.parseSimplePredicate: after "(" the errors of advance and of
\* eat(")") are not looked at
parseSimplePredicate(p) ==
    IF Str(p_peek(p)) = "("
    THEN BindUnchecked(p_advance(p), LAMBDA a :
             Bind(parseOrCondition(a.p), LAMBDA r :
                 BindUnchecked(eat(r.p, ")"), LAMBDA e : Ok(e.p, r.val))))
    ELSE Bind(parseExpression(p), LAMBDA x :
             parsePredicateTail(x.p, x.val, Str(p_peek(x.p))))

\* Parser.parseSimplePredicate after exp, err := p.parseExpression() and
\* token = p.peek()
parsePredicateTail(p, exp, token) ==
    IF token = "not" \/ token = "in"
    THEN Bind(IF token = "not" THEN p_advance(p) ELSE Ok(p, NilNode), LAMBDA a :
             Bind(parseIn(a.p, exp), LAMBDA r :
                 IF token = "not" THEN Ok(r.p, NegatePredicate(r.val)) ELSE r))
    ELSE IF token = "is"
    THEN Bind(p_advance(p), LAMBDA a : parseIsTail(a.p, exp, Str(p_peek(a.p)) = "not"))
    ELSE IF IsComparisonOperator(token)
    THEN Bind(p_advance(p), LAMBDA a :
             Bind(parseExpression(a.p), LAMBDA r :
                 App(r.p, NewCompBinaryApplication(exp, r.val, token))))
    ELSE Raise(p, "expected predicate")

\* parseSimplePredicate reading over the not after is
parseIsTailPositive(p, exp, negate) ==
    BindUnchecked(IF negate THEN p_advance(p) ELSE Ok(p, NilNode), LAMBDA n :
        Bind(eatIdentifier(n.p), LAMBDA t : Ok(t.p, NewIsOperator(exp, t.val))))

\* Parser.parseSimplePredicate after "is": the error of advance over "not"
\* is not looked at
parseIsTail(p, exp, negate) ==
    BindUnchecked(IF negate THEN p_advance(p) ELSE Ok(p, NilNode), LAMBDA n :
        Bind(eatIdentifier(n.p), LAMBDA t :
            Ok(t.p, IF negate THEN NegatePredicate(NewIsOperator(exp, t.val))
                    ELSE NewIsOperator(exp, t.val))))

\* Parser.parseNegatablePredicate
parseNegatablePredicate(p) ==
    IF Str(p_peek(p)) = "not"
    THEN Bind(p_advance(p), LAMBDA a :
             Bind(parseNegatablePredicate(a.p), LAMBDA r :
                 App(r.p, NewPredUnaryApplication(r.val, Str(p_peek(p))))))
    ELSE parseSimplePredicate(p)

\* Parser.parseAndConditionRec
parseAndConditionRec(p, left) ==
    IF Str(p_peek(p)) = "and"
    THEN Bind(p_advance(p), LAMBDA a :
             Bind(parseNegatablePredicate(a.p), LAMBDA r :
                 Bind(App(r.p, NewBoolBinaryApplication(left, r.val, Str(p_peek(p)))),
                      LAMBDA x : parseAndConditionRec(x.p, x.val))))
    ELSE Ok(p, left)

\* Parser.parseAndCondition
parseAndCondition(p) ==
    Bind(parseNegatablePredicate(p), LAMBDA r : parseAndConditionRec(r.p, r.val))

\* Parser.parseOrConditionRec
parseOrConditionRec(p, left) ==
    IF Str(p_peek(p)) = "or"
    THEN Bind(p_advance(p), LAMBDA a :
             Bind(parseAndCondition(a.p), LAMBDA r :
                 Bind(App(r.p, NewBoolBinaryApplication(left, r.val, Str(p_peek(p)))),
                      LAMBDA x : parseOrConditionRec(x.p, x.val))))
    ELSE Ok(p, left)

\* Parser.parseOrCondition
parseOrCondition(p) ==
    Bind(parseAndCondition(p), LAMBDA r : parseOrConditionRec(r.p, r.val))

\* Parser.parseWhere
parseWhere(p) == Bind(eat(p, "where"), LAMBDA e : parseOrCondition(e.p))

\* Parser.parseAs: val is the alias, or the empty string
parseAs(p) ==
    IF Str(p_peek(p)) = "as"
    THEN BindKeep(p_advance(p), <<>>, LAMBDA a : eatIdentifier(a.p))
    ELSE Ok(p, <<>>)

\* aliases[alias] = expression
MapPut(m, k, v) == [x \in DOMAIN m \cup {k} |-> IF x = k THEN v ELSE m[x]]

SelectList(expressions, aliases) == [expressions |-> expressions, aliases |-> aliases]

\* parseSelectElem keeping an expression that has an alias out of expressions
parseSelectElemUnlisted(p, expressions, aliases) ==
    BindKeep(parseExpression(p), SelectList(expressions, aliases), LAMBDA x :
        BindKeep(parseAs(x.p), SelectList(Append(expressions, x.val), aliases), LAMBDA a :
            Ok(a.p, IF a.val # <<>>
                    THEN SelectList(expressions, MapPut(aliases, a.val, x.val))
                    ELSE SelectList(Append(expressions, x.val), aliases))))

\* Parser.parseSelectElem: val is [expressions, aliases], also on an error
parseSelectElem(p, expressions, aliases) ==
    BindKeep(parseExpression(p), SelectList(expressions, aliases), LAMBDA x :
        BindKeep(parseAs(x.p), SelectList(Append(expressions, x.val), aliases), LAMBDA a :
            Ok(a.p, SelectList(Append(expressions, x.val),
                               IF a.val # <<>> THEN MapPut(aliases, a.val, x.val)
                               ELSE aliases))))

RECURSIVE parseSelectListLoop(_, _, _)
\* the for loop of Parser.parseSelectList
parseSelectListLoop(p, expressions, aliases) ==
    IF Str(p_peek(p)) = ","
    THEN BindKeep(p_advance(p), SelectList(expressions, aliases), LAMBDA a :
             BindKeep(parseSelectElem(a.p, expressions, aliases),
                      SelectList(expressions, aliases),
                      LAMBDA r : parseSelectListLoop(r.p, r.val.expressions, r.val.aliases)))
    ELSE Ok(p, SelectList(expressions, aliases))

\* Parser.parseSelectList
parseSelectList(p) ==
    BindKeep(parseSelectElem(p, <<>>, <<>>), SelectList(<<>>, <<>>),
             LAMBDA r : parseSelectListLoop(r.p, r.val.expressions, r.val.aliases))

\* parseGroupByElem setting a count whether or not it is set already
setGroupByCountAgain(p, groupBy, token, value) ==
    IF token = "blocks" THEN Ok(p, [groupBy EXCEPT !.BlocksCount = <<value>>])
    ELSE Ok(p, [groupBy EXCEPT !.TransactionsCount = <<value>>])

\* Parser.parseGroupByElem for blocks and transactions, after eat(")"):
\* val is the group by clause after the element
setGroupByCount(p, groupBy, token, value) ==
    IF token = "blocks"
    THEN IF groupBy.BlocksCount # <<>>
         THEN WithVal(Raise(p, "can only group once by blocks"), groupBy)
         ELSE Ok(p, [groupBy EXCEPT !.BlocksCount = <<value>>])
    ELSE IF groupBy.TransactionsCount # <<>>
         THEN WithVal(Raise(p, "can only group once by transactions"), groupBy)
         ELSE Ok(p, [groupBy EXCEPT !.TransactionsCount = <<value>>])

\* Parser.parseGroupByElem: val is the group by clause after the element
parseGroupByElem(p, groupBy) ==
    IF Str(p_peek(p)) \in {"blocks", "transactions"}
    THEN BindKeep(p_advance(p), groupBy, LAMBDA a :
             BindKeep(eat(a.p, "("), groupBy, LAMBDA o :
                 BindKeep(eatIntLiteral(o.p), groupBy, LAMBDA v :
                     BindKeep(eat(v.p, ")"), groupBy, LAMBDA c :
                         setGroupByCount(c.p, groupBy, Str(p_peek(p)), v.val)))))
    ELSE BindKeep(parseAttribute(p), groupBy, LAMBDA r :
             Ok(r.p, [groupBy EXCEPT !.Attributes = Append(@, r.val)]))

RECURSIVE parseGroupByLoop(_, _)
\* the for loop of Parser.parseGroupBy
parseGroupByLoop(p, groupBy) ==
    IF Str(p_peek(p)) = ","
    THEN Bind(p_advance(p), LAMBDA a :
             Bind(parseGroupByElem(a.p, groupBy), LAMBDA r :
                 parseGroupByLoop(r.p, r.val)))
    ELSE Ok(p, groupBy)

\* Parser.parseGroupBy
parseGroupBy(p) ==
    Bind(parseGroupByElem(p, NewGroupByClause), LAMBDA r : parseGroupByLoop(r.p, r.val))

\* the parse routine ParseSelect calls after the keyword of an optional clause
parseClause(p, keyword) ==
    IF keyword \in {"since", "until"} THEN parseBlockRef(p)
    ELSE IF keyword \in {"limit", "offset"} THEN eatIntLiteral(p)
    ELSE parseGroupBy(p)

\* one optional clause of Parser.ParseSelect: when the lookahead is the
\* keyword, advance and parse the clause; val is <<>> when the clause is
\* absent and <<parsed>> when it is there
OptionalClause(p, keyword) ==
    IF Str(p_peek(p)) = keyword
    THEN Bind(p_advance(p), LAMBDA a :
             Bind(parseClause(a.p, keyword), LAMBDA r : WithVal(r, <<r.val>>)))
    ELSE Ok(p, <<>>)

PtrOrNil(opt) == IF opt = <<>> THEN NilNode ELSE opt[1]

\* Parser.ParseSelect
ParseSelect(p) ==
    Bind(eat(p, "select"), LAMBDA e1 :
    Bind(parseSelectList(e1.p), LAMBDA sl :
    Bind(eat(sl.p, "from"), LAMBDA e2 :
    Bind(parseFrom(e2.p), LAMBDA fr :
    Bind(IF Str(p_peek(fr.p)) = "where" THEN parseWhere(fr.p) ELSE Ok(fr.p, NilNode),
         LAMBDA wh :
    Bind(OptionalClause(wh.p, "since"), LAMBDA si :
    Bind(OptionalClause(si.p, "until"), LAMBDA un :
    Bind(OptionalClause(un.p, "limit"), LAMBDA li :
    Bind(OptionalClause(li.p, "offset"), LAMBDA ofs :
    Bind(OptionalClause(ofs.p, "group by"), LAMBDA gb :
        Ok(gb.p, [kind |-> "SelectStatement",
                  Selected |-> sl.val.expressions,
                  From |-> fr.val,
                  Where |-> wh.val,
                  Since |-> PtrOrNil(si.val),
                  Until |-> PtrOrNil(un.val),
                  Limit |-> li.val,
                  Offset |-> ofs.val,
                  GroupBy |-> PtrOrNil(gb.val),
                  Aliases |-> sl.val.aliases])))))))))))

(***************************************************************************)
(* Queries of the model: the lexer queries are the concatenations of at    *)
(* most MaxFrags fragments, the select queries a prefix followed by at     *)
(* most MaxClauses clause fragments.                                       *)
(***************************************************************************)
MaxFrags == 3
MaxClauses == 2
MaxCallsAfterEnd == 2

\* the fragments: "a  "\\"  "  \\  \"  space  newline  --  -  <  >  group  by
\* GROUP BY  x  Select
LexFrags ==
    <<<<"\"","a">>,
      <<"\"","\\","\\","\"">>,
      <<"\"">>,
      <<"\\","\\">>,
      <<"\\","\"">>,
      <<" ">>,
      <<"\n">>,
      <<"-","-">>,
      <<"-">>,
      <<"<">>,
      <<">">>,
      <<"g","r","o","u","p"," ">>,
      <<"b","y"," ">>,
      <<"G","R","O","U","P"," ","B","Y">>,
      <<"x">>,
      <<"S","e","l","e","c","t">>>>

\* select a from 0x1 / select a 0x1 / a from 0x1
Prefixes ==
    <<<<"s","e","l","e","c","t"," ","a"," ","f","r","o","m"," ","0","x","1">>,
      <<"s","e","l","e","c","t"," ","a"," ","0","x","1">>,
      <<"a"," ","f","r","o","m"," ","0","x","1">>>>

\* where b = 1 / where (b = 1 / where b = (1) / where b not (1) / since 3 /
\* until 5 / limit 2 / offset 1 / group by blocks(3) / group by blocks 3) /
\* "x / foo
ClauseFrags ==
    <<<<" ","w","h","e","r","e"," ","b"," ","="," ","1">>,
      <<" ","w","h","e","r","e"," ","(","b"," ","="," ","1">>,
      <<" ","w","h","e","r","e"," ","b"," ","="," ","(","1",")">>,
      <<" ","w","h","e","r","e"," ","b"," ","n","o","t"," ","(","1",")">>,
      <<" ","s","i","n","c","e"," ","3">>,
      <<" ","u","n","t","i","l"," ","5">>,
      <<" ","l","i","m","i","t"," ","2">>,
      <<" ","o","f","f","s","e","t"," ","1">>,
      <<" ","g","r","o","u","p"," ","b","y"," ","b","l","o","c","k","s","(","3",")">>,
      <<" ","g","r","o","u","p"," ","b","y"," ","b","l","o","c","k","s"," ","3",")">>,
      <<" ","\"","x">>,
      <<" ","f","o","o">>>>

RECURSIVE Concat(_, _)
\* the concatenation of the fragments frags[is[1]], frags[is[2]], ...
Concat(frags, is) ==
    IF is = <<>> THEN <<>> ELSE frags[Head(is)] \o Concat(frags, Tail(is))

IndexSeqs(n, max) == UNION {[1..k -> 1..n] : k \in 0..max}

LexQueries == {Concat(LexFrags, is) : is \in IndexSeqs(Len(LexFrags), MaxFrags)}

SelectQueries ==
    {Prefixes[i] \o Concat(ClauseFrags, is) :
        i \in 1..Len(Prefixes), is \in IndexSeqs(Len(ClauseFrags), MaxClauses)}

Queries == LexQueries \cup SelectQueries

(***************************************************************************)
(* The program: a lexer is built on the query and is then either asked for *)
(* its tokens one by one or handed to a parser that parses one statement.  *)
(***************************************************************************)
NoLexer == [reader |-> <<>>, pos |-> 0, hasNext |-> FALSE, currentToken |-> <<>>,
            currentRune |-> Nil, panicked |-> FALSE]
NoParser == [Lexer |-> NoLexer, buffer |-> <<>>, hasNext |-> FALSE, firstErr |-> Nil]
NoResult == [stmt |-> NilNode, err |-> Nil]
\* NewAlerter(config, db) on a key/value store without the key
\* DestinationsKey: db is <<>> without the key and <<bytes>> with it
NewAlerter == [destinations |-> <<>>, db |-> <<>>]

NoKept == [query |-> <<>>, tree |-> NilNode]
NoEqual == "none"
NoOutcome == "none"
NoCall == "none"

Init ==
    /\ query \in Queries
    /\ pc = "start"
    /\ lexer = NoLexer
    /\ trace = <<>>
    /\ parser = NoParser
    /\ result = NoResult
    /\ kept = NoKept
    /\ equal = NoEqual
    /\ outcome = NoOutcome
    /\ call = NoCall
    /\ alerter = NewAlerter

\* the calls of NextToken that returned has_next = false
CallsAfterEnd == Cardinality({i \in 1..Len(trace) : ~trace[i].hasNext})

\* lexer := NewLexer(query)
DoNewLexer ==
    /\ pc = "start"
    /\ lexer' = NewLexer(query)
    /\ pc' = IF lexer'.panicked THEN "panic" ELSE "lexer"
    /\ UNCHANGED <<query, trace, parser, result, aux>>

\* the results r of lexer.NextToken() are recorded in the trace
NextTokenReturns(r) ==
    /\ lexer' = r.l
    /\ pc' = IF r.l.panicked THEN "panic" ELSE "lexer"
    /\ trace' = IF r.l.panicked THEN trace
                ELSE Append(trace, [token |-> r.token, hasNext |-> r.hasNext,
                                    err |-> r.err])

\* token, hasNext, err := lexer.NextToken()
DoNextToken ==
    /\ pc = "lexer"
    /\ CallsAfterEnd < MaxCallsAfterEnd
    /\ NextTokenReturns(NextToken(lexer))
    /\ UNCHANGED <<query, parser, result, aux>>

\* the results r of NewParser(lexer)
NewParserReturns(r) ==
    /\ parser' = r.p
    /\ lexer' = r.p.Lexer
    /\ pc' = IF Panicked(r.p) THEN "panic"
             ELSE IF r.err # Nil THEN "parserError" ELSE "parser"

\* parser, err := NewParser(lexer), on a lexer no token was taken from
DoNewParser ==
    /\ pc = "lexer"
    /\ trace = <<>>
    /\ NewParserReturns(NewParser(lexer))
    /\ UNCHANGED <<query, trace, result, aux>>

\* the results r of parser.ParseSelect()
ParseSelectReturns(r) ==
    /\ parser' = r.p
    /\ lexer' = r.p.Lexer
    /\ result' = IF Panicked(r.p) THEN result ELSE [stmt |-> r.val, err |-> r.err]
    /\ pc' = IF Panicked(r.p) THEN "panic" ELSE "parsed"

\* stmt, err := parser.ParseSelect()
DoParseSelect ==
    /\ pc = "parser"
    /\ ParseSelectReturns(ParseSelect(parser))
    /\ UNCHANGED <<query, trace, aux>>

Next == DoNewLexer \/ DoNextToken \/ DoNewParser \/ DoParseSelect

Spec == Init /\ [][Next]_vars

(***************************************************************************)
(* Queries of expressions and predicates, as the tests of the parser write *)
(* them: a chain is operand (operator operand)*, of at most MaxOperands    *)
(* operands, written as words with one space between two words.  A chain   *)
(* of expressions is the select list of a query, a chain of predicates its *)
(* where clause.                                                           *)
(***************************************************************************)
MaxOperands == 3

\* 2 / -a / f(b) / (a+2)
ExpOperands == {<<<<"2">>>>, <<<<"-","a">>>>, <<<<"f","(","b",")">>>>, <<<<"(","a","+","2",")">>>>}

\* + - * / %
ExpOperators == {<<"+">>, <<"-">>, <<"*">>, <<"/">>, <<"%">>}

\* p=1 / a+2<b / ((p=1)or(q=2)), each also after the word not
PredOperands ==
    LET ps == {<<<<"p","=","1">>>>, <<<<"a","+","2","<","b">>>>, <<<<"(","(","p","=","1",")","o","r","(","q","=","2",")",")">>>>}
    IN  ps \cup {<<<<"n","o","t">>>> \o x : x \in ps}

\* and or
PredOperators == {<<"a","n","d">>, <<"o","r">>}

RECURSIVE Chains(_, _, _)
\* the chains of k operands
Chains(operands, operators, k) ==
    IF k = 1 THEN operands
    ELSE {c \o <<o>> \o x :
            c \in Chains(operands, operators, k - 1), o \in operators, x \in operands}

RECURSIVE Join(_)
\* the words with one space between two of them
Join(ws) ==
    IF Len(ws) = 0 THEN <<>>
    ELSE IF Len(ws) = 1 THEN ws[1]
    ELSE ws[1] \o <<" ">> \o Join(Tail(ws))

\* select <chain> from 0x1
ExpQuery(chain) == Join(<<<<"s","e","l","e","c","t">>>> \o chain \o <<<<"f","r","o","m">>, <<"0","x","1">>>>)

\* select a from 0x1 where <chain>
PredQuery(chain) == Join(<<<<"s","e","l","e","c","t">>, <<"a">>, <<"f","r","o","m">>, <<"0","x","1">>, <<"w","h","e","r","e">>>> \o chain)

ExpChains == UNION {Chains(ExpOperands, ExpOperators, k) : k \in 1..MaxOperands}
PredChains == UNION {Chains(PredOperands, PredOperators, k) : k \in 1..MaxOperands}

ChainQueries == {ExpQuery(c) : c \in ExpChains} \cup {PredQuery(c) : c \in PredChains}

\* Select lists of at most MaxElems elements: 2 / -a / 2 + f(b), each alone
\* or followed by as x or by as y
MaxElems == 2

SelectElems ==
    LET es == {<<<<"2">>>>, <<<<"-","a">>>>, <<<<"2">>, <<"+">>, <<"f","(","b",")">>>>}
    IN  es \cup {e \o <<<<"a","s">>, <<"x">>>> : e \in es} \cup {e \o <<<<"a","s">>, <<"y">>>> : e \in es}

\* select <element> , <element> ... from 0x1
SelectListQueries ==
    {ExpQuery(c) : c \in UNION {Chains(SelectElems, {<<",">>}, k) : k \in 1..MaxElems}}

\* Group by lists of at most MaxGroupElems elements out of
\* blocks(1) / blocks(2) / transactions(3) / a / b.c
MaxGroupElems == 3

GroupElems == {<<<<"b","l","o","c","k","s","(","1",")">>>>, <<<<"b","l","o","c","k","s","(","2",")">>>>, <<<<"t","r","a","n","s","a","c","t","i","o","n","s","(","3",")">>>>, <<<<"a">>>>, <<<<"b",".","c">>>>}

\* select a from 0x1 group by <element> , <element> ...
GroupByQueries ==
    {Join(<<<<"s","e","l","e","c","t">>, <<"a">>, <<"f","r","o","m">>, <<"0","x","1">>, <<"g","r","o","u","p">>, <<"b","y">>>> \o c) :
        c \in UNION {Chains(GroupElems, {<<",">>}, k) : k \in 1..MaxGroupElems}}

\* the words of TestIsValidIdentifier, and words with a letter and a digit
\* that are not ASCII: abc / _abc / abc1 / a_b2_c / 1abc / $abc / abc$ / U+00E9 / a U+00E9 /
\* a U+0663 / U+0663 a
IdentifierWords ==
    {<<"a","b","c">>,
     <<"_","a","b","c">>,
     <<"a","b","c","1">>,
     <<"a","_","b","2","_","c">>,
     <<"1","a","b","c">>,
     <<"$","a","b","c">>,
     <<"a","b","c","$">>,
     <<"U+00E9">>,
     <<"a","U+00E9">>,
     <<"a","U+0663">>,
     <<"U+0663","a">>}

\* select <word> from 0x1 and select a as <word> from 0x1
IdentifierQueries ==
    {ExpQuery(<<w>>) : w \in IdentifierWords}
        \cup {ExpQuery(<<<<"a">>, <<"a","s">>>> \o <<w>>) : w \in IdentifierWords}

\* the expressions on the left and on the right of a comparison
LeftExpressions == {<<<<"a">>, <<"+">>, <<"1">>>>, <<<<"2">>, <<"*">>, <<"b">>>>, <<<<"a">>>>, <<<<"1">>>>}
RightExpressions == {<<<<"2">>>>, <<<<"b">>>>}

\* > >= < <= = <>
CompOperators == {<<<<">">>>>, <<<<">","=">>>>, <<<<"<">>>>, <<<<"<","=">>>>, <<<<"=">>>>, <<<<"<",">">>>>}

\* select a from 0x1 where ( e1 ) op e2 and
\* select a from 0x1 where ( e1 op e2 )
ParenQueries ==
    {PredQuery(<<<<"(">>>> \o l \o <<<<")">>>> \o o \o r) :
        l \in LeftExpressions, o \in CompOperators, r \in RightExpressions}
    \cup
    {PredQuery(<<<<"(">>>> \o l \o o \o r \o <<<<")">>>>) :
        l \in LeftExpressions, o \in CompOperators, r \in RightExpressions}

\* the literals: 0 / 7 / 007 / 0x10 / 0xFF / 0xff / 0x0 / 2147483647 /
\* 0x7fffffff / 9223372036854775808 / 0x8000000000000000 /
\* 18446744073709551617 / 0x10000000000000001 / abc / 0x / 0xg / 12a
\* (the literals that are stored stop at 2^31 - 1, the largest integer of
\* TLC; the literals above 2^63 - 1 are compared digit by digit)
LiteralWords ==
    <<<<"0">>, <<"7">>, <<"0","0","7">>, <<"0","x","1","0">>, <<"0","x","F","F">>, <<"0","x","f","f">>, <<"0","x","0">>,
      <<"2","1","4","7","4","8","3","6","4","7">>, <<"0","x","7","f","f","f","f","f","f","f">>,
      <<"9","2","2","3","3","7","2","0","3","6","8","5","4","7","7","5","8","0","8">>, <<"0","x","8","0","0","0","0","0","0","0","0","0","0","0","0","0","0","0">>,
      <<"1","8","4","4","6","7","4","4","0","7","3","7","0","9","5","5","1","6","1","7">>, <<"0","x","1","0","0","0","0","0","0","0","0","0","0","0","0","0","0","0","1">>,
      <<"a","b","c">>, <<"0","x">>, <<"0","x","g">>, <<"1","2","a">>>>

\* the words before and after the literal: since / until / limit / offset /
\* group by blocks ( ) / group by transactions ( )
LiteralClauses ==
    <<[before |-> <<<<"s","i","n","c","e">>>>, after |-> <<>>],
      [before |-> <<<<"u","n","t","i","l">>>>, after |-> <<>>],
      [before |-> <<<<"l","i","m","i","t">>>>, after |-> <<>>],
      [before |-> <<<<"o","f","f","s","e","t">>>>, after |-> <<>>],
      [before |-> <<<<"g","r","o","u","p">>, <<"b","y">>, <<"b","l","o","c","k","s">>, <<"(">>>>, after |-> <<<<")">>>>],
      [before |-> <<<<"g","r","o","u","p">>, <<"b","y">>, <<"t","r","a","n","s","a","c","t","i","o","n","s">>, <<"(">>>>, after |-> <<<<")">>>>]>>

\* select a from 0x1 <clause with the literal>
LiteralQuery(clause, literal) ==
    Join(<<<<"s","e","l","e","c","t">>, <<"a">>, <<"f","r","o","m">>, <<"0","x","1">>>> \o clause.before \o <<literal>> \o clause.after)

LiteralQueries ==
    {LiteralQuery(LiteralClauses[c], LiteralWords[i]) :
        c \in DOMAIN LiteralClauses, i \in DOMAIN LiteralWords}

ParseQueries ==
    ChainQueries \cup SelectListQueries \cup GroupByQueries \cup IdentifierQueries
        \cup ParenQueries \cup LiteralQueries

\* the program on the queries of the parser's tests: NewParser(NewLexer(query))
\* and then ParseSelect
InitParse ==
    /\ query \in ParseQueries
    /\ pc = "start"
    /\ lexer = NoLexer
    /\ trace = <<>>
    /\ parser = NoParser
    /\ result = NoResult
    /\ kept = NoKept
    /\ equal = NoEqual
    /\ outcome = NoOutcome
    /\ call = NoCall
    /\ alerter = NewAlerter

NextParse == DoNewLexer \/ DoNewParser \/ DoParseSelect

SpecParse == InitParse /\ [][NextParse]_vars

(***************************************************************************)
(* Queries whose trees the tests compare with Equals.                      *)
(***************************************************************************)
\* select <expression> from 0x1, the expressions being
\* SUM(msg.value) / sum(msg.value) / Sum(msg.value) / sum(msg.Value) /
\* msg.value / msg.Value / msg / sum(msg.value, 1) / max(msg.value) /
\* 1 / 0x1 / 2 / "a" / "1" / a + 1 / 1 + a / a - 1 / -a / +a / tx.From /
\* tx.from
ExpressionQueries ==
    {
      <<"s","e","l","e","c","t"," ","S","U","M","(","m","s","g",".","v","a","l","u","e",")"," ","f","r","o","m"," ","0","x","1">>,
      <<"s","e","l","e","c","t"," ","s","u","m","(","m","s","g",".","v","a","l","u","e",")"," ","f","r","o","m"," ","0","x","1">>,
      <<"s","e","l","e","c","t"," ","S","u","m","(","m","s","g",".","v","a","l","u","e",")"," ","f","r","o","m"," ","0","x","1">>,
      <<"s","e","l","e","c","t"," ","s","u","m","(","m","s","g",".","V","a","l","u","e",")"," ","f","r","o","m"," ","0","x","1">>,
      <<"s","e","l","e","c","t"," ","m","s","g",".","v","a","l","u","e"," ","f","r","o","m"," ","0","x","1">>,
      <<"s","e","l","e","c","t"," ","m","s","g",".","V","a","l","u","e"," ","f","r","o","m"," ","0","x","1">>,
      <<"s","e","l","e","c","t"," ","m","s","g"," ","f","r","o","m"," ","0","x","1">>,
      <<"s","e","l","e","c","t"," ","s","u","m","(","m","s","g",".","v","a","l","u","e",","," ","1",")"," ","f","r","o","m"," ","0","x","1">>,
      <<"s","e","l","e","c","t"," ","m","a","x","(","m","s","g",".","v","a","l","u","e",")"," ","f","r","o","m"," ","0","x","1">>,
      <<"s","e","l","e","c","t"," ","1"," ","f","r","o","m"," ","0","x","1">>,
      <<"s","e","l","e","c","t"," ","0","x","1"," ","f","r","o","m"," ","0","x","1">>,
      <<"s","e","l","e","c","t"," ","2"," ","f","r","o","m"," ","0","x","1">>,
      <<"s","e","l","e","c","t"," ","\"","a","\""," ","f","r","o","m"," ","0","x","1">>,
      <<"s","e","l","e","c","t"," ","\"","1","\""," ","f","r","o","m"," ","0","x","1">>,
      <<"s","e","l","e","c","t"," ","a"," ","+"," ","1"," ","f","r","o","m"," ","0","x","1">>,
      <<"s","e","l","e","c","t"," ","1"," ","+"," ","a"," ","f","r","o","m"," ","0","x","1">>,
      <<"s","e","l","e","c","t"," ","a"," ","-"," ","1"," ","f","r","o","m"," ","0","x","1">>,
      <<"s","e","l","e","c","t"," ","-","a"," ","f","r","o","m"," ","0","x","1">>,
      <<"s","e","l","e","c","t"," ","+","a"," ","f","r","o","m"," ","0","x","1">>,
      <<"s","e","l","e","c","t"," ","t","x",".","F","r","o","m"," ","f","r","o","m"," ","0","x","1">>,
      <<"s","e","l","e","c","t"," ","t","x",".","f","r","o","m"," ","f","r","o","m"," ","0","x","1">>
    }

\* select a from 0x1 where <predicate>, the predicates being
\* x is t / x is not t / not x is t / x is u / x in (1, 2) /
\* x not in (1, 2) / not x in (1, 2) / x in (2, 1) / x in (1) / a = 1 /
\* a <> 1 / a = 1 and b = 2 / a = 1 or b = 2 / not (a = 1 or b = 2) /
\* not a = 1 or b = 2 / (a = 1 or b = 2) / msg.sender is address /
\* msg.sender is not address / 2 + a is null / 2 + a is not null /
\* f(b) in (a, "s") / f(b) not in (a, "s") / x not in (1)
PredicateQueries ==
    {
      <<"s","e","l","e","c","t"," ","a"," ","f","r","o","m"," ","0","x","1"," ","w","h","e","r","e"," ","x"," ","i","s"," ","t">>,
      <<"s","e","l","e","c","t"," ","a"," ","f","r","o","m"," ","0","x","1"," ","w","h","e","r","e"," ","x"," ","i","s"," ","n","o","t"," ","t">>,
      <<"s","e","l","e","c","t"," ","a"," ","f","r","o","m"," ","0","x","1"," ","w","h","e","r","e"," ","n","o","t"," ","x"," ","i","s"," ","t">>,
      <<"s","e","l","e","c","t"," ","a"," ","f","r","o","m"," ","0","x","1"," ","w","h","e","r","e"," ","x"," ","i","s"," ","u">>,
      <<"s","e","l","e","c","t"," ","a"," ","f","r","o","m"," ","0","x","1"," ","w","h","e","r","e"," ","x"," ","i","n"," ","(","1",","," ","2",")">>,
      <<"s","e","l","e","c","t"," ","a"," ","f","r","o","m"," ","0","x","1"," ","w","h","e","r","e"," ","x"," ","n","o","t"," ","i","n"," ","(","1",","," ","2",")">>,
      <<"s","e","l","e","c","t"," ","a"," ","f","r","o","m"," ","0","x","1"," ","w","h","e","r","e"," ","n","o","t"," ","x"," ","i","n"," ","(","1",","," ","2",")">>,
      <<"s","e","l","e","c","t"," ","a"," ","f","r","o","m"," ","0","x","1"," ","w","h","e","r","e"," ","x"," ","i","n"," ","(","2",","," ","1",")">>,
      <<"s","e","l","e","c","t"," ","a"," ","f","r","o","m"," ","0","x","1"," ","w","h","e","r","e"," ","x"," ","i","n"," ","(","1",")">>,
      <<"s","e","l","e","c","t"," ","a"," ","f","r","o","m"," ","0","x","1"," ","w","h","e","r","e"," ","a"," ","="," ","1">>,
      <<"s","e","l","e","c","t"," ","a"," ","f","r","o","m"," ","0","x","1"," ","w","h","e","r","e"," ","a"," ","<",">"," ","1">>,
      <<"s","e","l","e","c","t"," ","a"," ","f","r","o","m"," ","0","x","1"," ","w","h","e","r","e"," ","a"," ","="," ","1"," ","a","n","d"," ","b"," ","="," ","2">>,
      <<"s","e","l","e","c","t"," ","a"," ","f","r","o","m"," ","0","x","1"," ","w","h","e","r","e"," ","a"," ","="," ","1"," ","o","r"," ","b"," ","="," ","2">>,
      <<"s","e","l","e","c","t"," ","a"," ","f","r","o","m"," ","0","x","1"," ","w","h","e","r","e"," ","n","o","t"," ","(","a"," ","="," ","1"," ","o","r"," ","b"," ","="," ","2",")">>,
      <<"s","e","l","e","c","t"," ","a"," ","f","r","o","m"," ","0","x","1"," ","w","h","e","r","e"," ","n","o","t"," ","a"," ","="," ","1"," ","o","r"," ","b"," ","="," ","2">>,
      <<"s","e","l","e","c","t"," ","a"," ","f","r","o","m"," ","0","x","1"," ","w","h","e","r","e"," ","(","a"," ","="," ","1"," ","o","r"," ","b"," ","="," ","2",")">>,
      <<"s","e","l","e","c","t"," ","a"," ","f","r","o","m"," ","0","x","1"," ","w","h","e","r","e"," ","m","s","g",".","s","e","n","d","e","r"," ","i","s"," ","a","d","d","r","e","s","s">>,
      <<"s","e","l","e","c","t"," ","a"," ","f","r","o","m"," ","0","x","1"," ","w","h","e","r","e"," ","m","s","g",".","s","e","n","d","e","r"," ","i","s"," ","n","o","t"," ","a","d","d","r","e","s","s">>,
      <<"s","e","l","e","c","t"," ","a"," ","f","r","o","m"," ","0","x","1"," ","w","h","e","r","e"," ","2"," ","+"," ","a"," ","i","s"," ","n","u","l","l">>,
      <<"s","e","l","e","c","t"," ","a"," ","f","r","o","m"," ","0","x","1"," ","w","h","e","r","e"," ","2"," ","+"," ","a"," ","i","s"," ","n","o","t"," ","n","u","l","l">>,
      <<"s","e","l","e","c","t"," ","a"," ","f","r","o","m"," ","0","x","1"," ","w","h","e","r","e"," ","f","(","b",")"," ","i","n"," ","(","a",","," ","\"","s","\"",")">>,
      <<"s","e","l","e","c","t"," ","a"," ","f","r","o","m"," ","0","x","1"," ","w","h","e","r","e"," ","f","(","b",")"," ","n","o","t"," ","i","n"," ","(","a",","," ","\"","s","\"",")">>,
      <<"s","e","l","e","c","t"," ","a"," ","f","r","o","m"," ","0","x","1"," ","w","h","e","r","e"," ","x"," ","n","o","t"," ","i","n"," ","(","1",")">>
    }

CompareQueries == ExpressionQueries \cup PredicateQueries

\* the tree of a statement a test compares: stmt.Where or else stmt.Selected[0]
Compared(stmt) == IF stmt.Where # NilNode THEN stmt.Where ELSE stmt.Selected[1]

\* a test keeps the tree of the statement and parses another query
DoKeep ==
    /\ pc = "parsed"
    /\ result.err = Nil
    /\ kept = NoKept
    /\ kept' = [query |-> query, tree |-> Compared(result.stmt)]
    /\ query' \in CompareQueries
    /\ pc' = "start"
    /\ lexer' = NoLexer
    /\ parser' = NoParser
    /\ result' = NoResult
    /\ UNCHANGED <<trace, equal, outcome, call, alerter>>

\* kept.Equals(tree) and tree.Equals(kept), tree being the tree of the
\* statement parsed last
DoEquals ==
    /\ pc = "parsed"
    /\ result.err = Nil
    /\ kept # NoKept
    /\ equal' = [forth |-> Equals(kept.tree, Compared(result.stmt)),
                 back |-> Equals(Compared(result.stmt), kept.tree)]
    /\ pc' = "compared"
    /\ UNCHANGED <<query, lexer, trace, parser, result, kept, outcome, call, alerter>>

InitCompare ==
    /\ query \in CompareQueries
    /\ pc = "start"
    /\ lexer = NoLexer
    /\ trace = <<>>
    /\ parser = NoParser
    /\ result = NoResult
    /\ kept = NoKept
    /\ equal = NoEqual
    /\ outcome = NoOutcome
    /\ call = NoCall
    /\ alerter = NewAlerter

NextCompare == DoNewLexer \/ DoNewParser \/ DoParseSelect \/ DoKeep \/ DoEquals

SpecCompare == InitCompare /\ [][NextCompare]_vars

(***************************************************************************)
(* Evaluation of a selected expression: the queries select one operation   *)
(* on two operands.  A negative integer is written with the unary minus.   *)
(***************************************************************************)
IntOperands == {<<<<"-","7">>>>, <<<<"-","2">>>>, <<<<"0">>>>, <<<<"2">>>>, <<<<"7">>>>}

ExecuteOperands == IntOperands \cup {<<<<"\"","s","\"">>>>, <<<<"a">>>>}

ExecuteQueries ==
    {ExpQuery(l \o <<o>> \o r) : l \in ExecuteOperands, o \in ExpOperators, r \in ExecuteOperands}

\* comparisons of integer literals
Comparisons == {<<<<"7">>, <<">">>, <<"5">>>>, <<<<"7">>, <<"<">>, <<"5">>>>, <<<<"6","6">>, <<"=">>, <<"6","6">>>>, <<<<"1">>, <<"<",">">>, <<"1">>>>}

\* select a from 0x1 where p and q / p or q / not p
LogicQueries ==
    {PredQuery(p \o <<o>> \o q) : p \in Comparisons, o \in PredOperators, q \in Comparisons}
        \cup {PredQuery(<<<<"n","o","t">>>> \o p) : p \in Comparisons}

\* select msg.value from 0x1 and the like
AttributeQueries == {ExpQuery(e) : e \in {<<<<"m","s","g",".","v","a","l","u","e">>>>, <<<<"m","s","g",".","s","e","n","d","e","r">>>>, <<<<"t","x",".","o","r","i","g","i","n">>>>, <<<<"a">>>>, <<<<"b",".","c",".","d">>>>}}

\* the elements of an IN: literals, calls of the functions of TestEnv, an
\* attribute
InElems == {<<<<"1">>>>, <<<<"2">>>>, <<<<"\"","s","\"">>>>, <<<<"o","n","e","(","1",")">>>>, <<<<"o","n","e","(","2",")">>>>, <<<<"f","a","i","l","(","3",")">>>>, <<<<"x">>>>}

MaxHaystack == 2

\* the words e , e ... of k elements
RECURSIVE Lists(_, _)
Lists(elems, k) ==
    IF k = 1 THEN elems
    ELSE {l \o <<<<",">>>> \o e : l \in Lists(elems, k - 1), e \in elems}

\* select a from 0x1 where n in ( e , e ... )
InQueries ==
    {PredQuery(n \o <<<<"i","n">>, <<"(">>>> \o l \o <<<<")">>>>) :
        n \in InElems, l \in UNION {Lists(InElems, k) : k \in 1..MaxHaystack}}

\* the children of an application or of a call: calls of the functions of
\* TestEnv and literals
Children == {<<<<"o","n","e","(","1",")">>>>, <<<<"o","n","e","(","2",")">>>>, <<<<"f","a","i","l","(","3",")">>>>, <<<<"f","a","i","l","(","4",")">>>>, <<<<"\"","s","\"">>>>, <<<<"1">>>>}

MaxArguments == 2

\* select l + r from 0x1, select l * r from 0x1 and
\* select f ( e , e ... ) from 0x1 for the functions one and fail and for
\* nope, which the environment has not
OrderQueries ==
    {ExpQuery(l \o <<o>> \o r) : l \in Children, o \in {<<"+">>, <<"*">>}, r \in Children}
        \cup {ExpQuery(f \o <<<<"(">>>> \o l \o <<<<")">>>>) :
                 f \in {<<<<"o","n","e">>>>, <<<<"f","a","i","l">>>>, <<<<"n","o","p","e">>>>},
                 l \in UNION {Lists(Children, k) : k \in 1..MaxArguments}}

EvalQueries ==
    ExecuteQueries \cup LogicQueries \cup AttributeQueries \cup InQueries \cup OrderQueries

\* value, err := stmt.Selected[0].Execute(env)
DoExecute ==
    /\ pc = "parsed"
    /\ result.err = Nil
    /\ outcome = NoOutcome
    /\ outcome' = Execute(result.stmt.Selected[1], TestEnv, <<>>)
    /\ pc' = IF outcome'.panic # Nil THEN "panic" ELSE "executed"
    /\ UNCHANGED <<query, lexer, trace, parser, result, kept, equal, call, alerter>>

\* res, err := stmt.Where.ExecuteBool(env)
DoExecuteBool ==
    /\ pc = "parsed"
    /\ result.err = Nil
    /\ result.stmt.Where # NilNode
    /\ outcome' = ExecuteBool(result.stmt.Where, TestEnv, <<>>)
    /\ pc' = IF outcome'.panic # Nil THEN "panic" ELSE "executedBool"
    /\ UNCHANGED <<query, lexer, trace, parser, result, kept, equal, call, alerter>>

InitExecute ==
    /\ query \in EvalQueries
    /\ pc = "start"
    /\ lexer = NoLexer
    /\ trace = <<>>
    /\ parser = NoParser
    /\ result = NoResult
    /\ kept = NoKept
    /\ equal = NoEqual
    /\ outcome = NoOutcome
    /\ call = NoCall
    /\ alerter = NewAlerter

NextExecute == DoNewLexer \/ DoNewParser \/ DoParseSelect \/ DoExecute \/ DoExecuteBool

SpecExecute == InitExecute /\ [][NextExecute]_vars

(***************************************************************************)
(* Apply called on the operators the constructors return, with values of   *)
(* the three variants.                                                     *)
(***************************************************************************)
Values == <<NewIntValue(1), NewIntValue(2), NewStringValue(<<"s">>), NewBoolValue(TRUE),
            NewBoolValue(FALSE)>>

\* NewIntBinOperator, NewCompOperator and NewBoolBinOperator of their symbols
BinaryOperators ==
    {NewIntBinOperator(o).op : o \in arithBinaryOperators \cup comparisonBinaryOperators}
        \cup {NewCompOperator(o).op : o \in comparisonBinaryOperators}
        \cup {NewBoolBinOperator(o).op : o \in boolBinaryOperators}

\* NewIntUnaryOperator and NewBoolUnaryOperator of their symbols
UnaryOperators ==
    {NewIntUnaryOperator(o).op : o \in intUnaryOperators}
        \cup {NewBoolUnaryOperator(o).op : o \in boolUnaryOperators}

\* value, err := operator.Apply(left, right)
DoApply ==
    /\ pc = "start"
    /\ Len(call.operands) = 2
    /\ outcome' = Apply(call.operator, call.operands[1], call.operands[2])
    /\ pc' = IF outcome'.panic # Nil THEN "panic" ELSE "applied"
    /\ UNCHANGED <<query, lexer, trace, parser, result, kept, equal, call, alerter>>

\* value, err := operator.Apply(operand)
DoApplyUnary ==
    /\ pc = "start"
    /\ Len(call.operands) = 1
    /\ outcome' = ApplyUnary(call.operator, call.operands[1])
    /\ pc' = IF outcome'.panic # Nil THEN "panic" ELSE "applied"
    /\ UNCHANGED <<query, lexer, trace, parser, result, kept, equal, call, alerter>>

InitApply ==
    /\ query = <<>>
    /\ pc = "start"
    /\ lexer = NoLexer
    /\ trace = <<>>
    /\ parser = NoParser
    /\ result = NoResult
    /\ kept = NoKept
    /\ equal = NoEqual
    /\ outcome = NoOutcome
    /\ alerter = NewAlerter
    /\ \/ \E o \in BinaryOperators, l \in DOMAIN Values, r \in DOMAIN Values :
              call = [operator |-> o, operands |-> <<Values[l], Values[r]>>]
       \/ \E o \in UnaryOperators, x \in DOMAIN Values :
              call = [operator |-> o, operands |-> <<Values[x]>>]

NextApply == DoApply \/ DoApplyUnary

SpecApply == InitApply /\ [][NextApply]_vars

(***************************************************************************)
(* The registry of destinations.  Alerter.destinations maps a destination  *)
(* to its sender; the key/value store holds under DestinationsKey the JSON *)
(* text of the list of destinations.  Get fails without the key and when   *)
(* the store fails, Put fails when the store fails.                        *)
(***************************************************************************)
\* the transports of the map senders
senders == {"http", "smtp"}

\* NewHTTPSender(endpoint, cfg) / NewSMTPSender(endpoint, cfg)
senderFactory(transport, endpoint) == [transport |-> transport, endpoint |-> endpoint]

\* strings.SplitN(str, sep, 2) for a separator of one rune
SplitN(str, sep) ==
    IF sep \notin Range(str) THEN <<str>>
    ELSE <<SubSeq(str, 1, Index(str, sep) - 1), SubSeq(str, Index(str, sep) + 1, Len(str))>>

RECURSIVE MarshalString(_)
\* the runes of a string inside the quotes of its JSON text
MarshalString(str) ==
    IF str = <<>> THEN <<>>
    ELSE (IF Head(str) \in {"\"", "\\"} THEN <<"\\", Head(str)>> ELSE <<Head(str)>>)
            \o MarshalString(Tail(str))

RECURSIVE MarshalStrings(_)
MarshalStrings(list) ==
    IF list = <<>> THEN <<>>
    ELSE <<"\"">> \o MarshalString(Head(list)) \o <<"\"">>
            \o (IF Len(list) > 1 THEN <<",">> ELSE <<>>) \o MarshalStrings(Tail(list))

\* json.Marshal of a []string
Marshal(list) ==
    IF list = <<>> THEN <<"n","u","l","l">> ELSE <<"[">> \o MarshalStrings(list) \o <<"]">>

RECURSIVE UnmarshalString(_, _, _)
\* the string whose runes start at bs[i], and the index after its closing
\* quote
UnmarshalString(bs, i, str) ==
    IF bs[i] = "\"" THEN [val |-> str, next |-> i + 1]
    ELSE IF bs[i] = "\\" THEN UnmarshalString(bs, i + 2, Append(str, bs[i + 1]))
    ELSE UnmarshalString(bs, i + 1, Append(str, bs[i]))

RECURSIVE UnmarshalStrings(_, _, _)
RECURSIVE UnmarshalNext(_, _, _)
\* the strings of the list after the string s
UnmarshalNext(bs, s, list) ==
    IF bs[s.next] = "," THEN UnmarshalStrings(bs, s.next + 1, Append(list, s.val))
    ELSE Append(list, s.val)

\* the strings of the list from the opening quote bs[i]
UnmarshalStrings(bs, i, list) == UnmarshalNext(bs, UnmarshalString(bs, i + 1, <<>>), list)

\* json.Unmarshal(bytes, &destinations) of a text json.Marshal wrote
Unmarshal(bs) ==
    IF bs[1] # "[" \/ bs[2] = "]" THEN <<>> ELSE UnmarshalStrings(bs, 2, <<>>)

\* Alerter.loadDestinations: no destination when Get returns an error
loadDestinations(a, getFails) ==
    IF getFails \/ a.db = <<>> THEN <<>> ELSE Unmarshal(a.db[1])

\* Alerter.persistDestination: the alerter and the error of Put
persistDestination(a, destination, getFails, putFails) ==
    IF putFails THEN [a |-> a, ok |-> TRUE, err |-> "put failed"]
    ELSE [a |-> [a EXCEPT !.db = <<Marshal(Append(loadDestinations(a, getFails), destination))>>],
          ok |-> TRUE, err |-> Nil]

\* Alerter.RegisterDestination once the destination is split: the alerter
\* after the call and the two results
RegisterSplitted(a, destination, splitted, getFails, putFails) ==
    IF Len(splitted) < 2 THEN [a |-> a, ok |-> FALSE, err |-> "panic: index out of range"]
    ELSE IF Str(splitted[1]) \notin senders
         THEN [a |-> a, ok |-> FALSE, err |-> "unknown transport type " \o Str(splitted[1])]
         ELSE persistDestination(
                 [a EXCEPT !.destinations =
                     [k \in DOMAIN @ \cup {destination} |->
                         IF k = destination
                         THEN senderFactory(Str(splitted[1]), splitted[2])
                         ELSE @[k]]],
                 destination, getFails, putFails)

\* the keys of the map Alerter.destinations
Keys(a) == DOMAIN a.destinations

\* Alerter.RegisterDestination
RegisterDestination(a, destination, getFails, putFails) ==
    IF destination \in Keys(a) THEN [a |-> a, ok |-> FALSE, err |-> Nil]
    ELSE RegisterSplitted(a, destination, SplitN(destination, ":"), getFails, putFails)

\* http:a / smtp:b / http:"c / ftp:d / nocolon
Destinations ==
    <<<<"h","t","t","p",":","a">>, <<"s","m","t","p",":","b">>, <<"h","t","t","p",":","\"","c">>, <<"f","t","p",":","d">>, <<"n","o","c","o","l","o","n">>>>

\* PublicAlerterAPI.RegisterDestination returning r
RegisterDestinationReturns(r) ==
    /\ alerter' = r.a
    /\ outcome' = [ok |-> r.ok, err |-> r.err]
    /\ pc' = IF r.err = "panic: index out of range" THEN "panic" ELSE "registered"

\* api.RegisterDestination(destination), with a store that may fail
DoRegisterDestination ==
    /\ pc \in {"start", "registered"}
    /\ \E d \in DOMAIN Destinations, getFails \in BOOLEAN, putFails \in BOOLEAN :
          /\ call' = [destination |-> Destinations[d], getFails |-> getFails, putFails |-> putFails]
          /\ RegisterDestinationReturns(
                 RegisterDestination(alerter, Destinations[d], getFails, putFails))
    /\ UNCHANGED <<query, lexer, trace, parser, result, kept, equal>>

InitRegister ==
    /\ query = <<>>
    /\ pc = "start"
    /\ lexer = NoLexer
    /\ trace = <<>>
    /\ parser = NoParser
    /\ result = NoResult
    /\ kept = NoKept
    /\ equal = NoEqual
    /\ outcome = NoOutcome
    /\ call = NoCall
    /\ alerter = NewAlerter

NextRegister == DoRegisterDestination

SpecRegister == InitRegister /\ [][NextRegister]_vars

(***************************************************************************)
(* What the language definition says of a query, read rune by rune: the    *)
(* mode after the first i runes.  "dash" is the first `-` of a comment,    *)
(* "escape" the backslash of an escape inside a string literal.            *)
(***************************************************************************)
RECURSIVE ModeAfter(_, _)
ModeAfter(q, i) ==
    IF i = 0 THEN "code"
    ELSE LET m == ModeAfter(q, i - 1)
             c == q[i]
         IN  CASE m = "code" ->
                    IF c = "\"" THEN "string"
                    ELSE IF c = "-" /\ i < Len(q) /\ q[i + 1] = "-" THEN "dash"
                    ELSE "code"
               [] m = "dash" -> "comment"
               [] m = "comment" -> IF c = "\n" THEN "code" ELSE "comment"
               [] m = "string" ->
                    IF c = "\\" THEN "escape"
                    ELSE IF c = "\"" THEN "code"
                    ELSE "string"
               [] m = "escape" -> "string"

\* the query ends inside a string literal
UnterminatedString(q) == ModeAfter(q, Len(q)) \in {"string", "escape"}

\* the index of the quote that closes the string literal opened at rune 1,
\* or 0 when there is none
ClosedAt(q) ==
    LET ends == {i \in 2..Len(q) : ModeAfter(q, i - 1) = "string" /\ ModeAfter(q, i) = "code"}
    IN  IF q = <<>> \/ q[1] # "\"" \/ ends = {} THEN 0
        ELSE CHOOSE i \in ends : \A j \in ends : i <= j

RECURSIVE StripFrom(_, _)
\* the runes of q from index i on, each comment replaced by a newline
StripFrom(q, i) ==
    IF i > Len(q)
    THEN IF ModeAfter(q, Len(q)) = "comment" THEN <<"\n">> ELSE <<>>
    ELSE IF ModeAfter(q, i) \in {"dash", "comment"} THEN StripFrom(q, i + 1)
         ELSE <<q[i]>> \o StripFrom(q, i + 1)

\* the query with each `--` comment replaced by a newline
StripComments(q) == StripFrom(q, 1)

\* the `-` runes of q that stand alone outside comments and string literals
SingleDashes(q) ==
    {i \in 1..Len(q) : q[i] = "-" /\ ModeAfter(q, i - 1) = "code" /\ ModeAfter(q, i) = "code"}

\* the indexes at which the word w starts in q
Positions(q, w) ==
    {i \in 1..(Len(q) - Len(w) + 1) : SubSeq(q, i, i + Len(w) - 1) = w}

\* what one call of NextToken returned
Returned(token, hasNext, err) == [token |-> token, hasNext |-> hasNext, err |-> err]

RECURSIVE Consume(_, _)
\* NextToken called until it returns has_next = false; a panic ends the
\* stream with the error "panic"
Consume(l, out) ==
    IF l.panicked THEN Append(out, Returned(<<>>, FALSE, "panic"))
    ELSE LET r == NextToken(l)
         IN  IF r.l.panicked THEN Append(out, Returned(<<>>, FALSE, "panic"))
             ELSE IF ~r.hasNext THEN Append(out, Returned(r.token, r.hasNext, r.err))
             ELSE Consume(r.l, Append(out, Returned(r.token, r.hasNext, r.err)))

\* the token stream of a query
TokenStream(q) == Consume(NewLexer(q), <<>>)

\* the stream of the lexer has just ended: the last call of NextToken is the
\* first that returned has_next = false
StreamEnded ==
    /\ pc = "lexer"
    /\ trace # <<>>
    /\ \A i \in 1..Len(trace) : trace[i].hasNext <=> i < Len(trace)

\* NewLexer or a call of NextToken panicked
LexerPanicked == pc = "panic" /\ parser = NoParser

\* the reserved keywords of the language
ReservedKeywords ==
    {"select", "from", "as", "where", "since", "until", "group by", "null", "contract",
     "and", "or", "not", "blocks", "transactions", "is", "in"}

\* the optional clauses of a select statement, in their order
ClauseKeywords ==
    <<<<"w","h","e","r","e">>, <<"s","i","n","c","e">>, <<"u","n","t","i","l">>,
      <<"l","i","m","i","t">>, <<"o","f","f","s","e","t">>,
      <<"g","r","o","u","p"," ","b","y">>>>

\* the tokens the grammar requires at fixed places
RequiredTokens == {"select", "from", "(", ")", "in"}

(***************************************************************************)
(* The properties                                                          *)
(***************************************************************************)

\* C1: end of stream is sticky: once a call of NextToken has returned
\* has_next = false, every later call returns ("", false, nil).
StickyEndOfStream ==
    \A i, j \in 1..Len(trace) :
        (i < j /\ ~trace[i].hasNext) => trace[j] = Returned(<<>>, FALSE, Nil)

\* C2: NewLexer followed by calls of NextToken completes normally for every
\* query: the lexer never reads the current rune when the input is exhausted.
LexerCompletesNormally == ~LexerPanicked

\* C3: an unterminated string literal is always reported: when the query
\* ends inside a string literal, the stream does not end with
\* has_next = false after nil errors only.
UnterminatedStringReported ==
    (pc = "lexer" /\ UnterminatedString(query)
       /\ \E i \in 1..Len(trace) : ~trace[i].hasNext)
    => \E i \in 1..Len(trace) : trace[i].err # Nil

\* C4: reserved keywords are emitted lower-cased whatever their case in the
\* query, and `group` followed by `by` in any case is emitted as `group by`.
KeywordsLowerCased ==
    \A i \in 1..Len(trace) :
        trace[i].hasNext =>
            /\ Str(ToLower(trace[i].token)) \in ReservedKeywords
                  => trace[i].token = ToLower(trace[i].token)
            /\ ~(/\ i < Len(trace)
                 /\ trace[i + 1].hasNext
                 /\ Str(ToLower(trace[i].token)) = "group"
                 /\ Str(ToLower(trace[i + 1].token)) = "by")

\* C5: after `group` and `by` are fused into the token `group by`, the
\* following call returns the token after `by`: in a query that holds the
\* word `by` once, no call returns `by` after `group by` was returned.
GroupByFused ==
    Cardinality(Positions(query, <<"b", "y">>)) = 1
    => \A i, j \in 1..Len(trace) :
           ~(i < j /\ Str(trace[i].token) = "group by" /\ Str(trace[j].token) = "by")

\* C6: a string literal ends at the first quote that is not escaped, a
\* backslash escaping exactly the one rune after it: when the query starts
\* with a complete literal and holds no unterminated one, the first token
\* returned is that literal verbatim.
StringLiteralScanned ==
    (ClosedAt(query) > 0 /\ ~UnterminatedString(query) /\ Len(trace) >= 1)
    => trace[1] = Returned(SubSeq(query, 1, ClosedAt(query)), TRUE, Nil)

\* C7: line comments produce no tokens: the token stream of a query is the
\* token stream of the query with each comment replaced by a newline, and
\* each `-` that stands alone is returned as the token `-`.
CommentsProduceNoTokens ==
    /\ StreamEnded => trace = TokenStream(StripComments(query))
    /\ (StreamEnded \/ LexerPanicked) /\ ~UnterminatedString(query)
          => Cardinality({i \in 1..Len(trace) : Str(trace[i].token) = "-"})
                = Cardinality(SingleDashes(query))

\* C8: clause order is enforced: a statement parses successfully only when
\* its optional clauses stand in the order where, since, until, limit,
\* offset, group by, each at most once.
ClauseOrderEnforced ==
    (pc = "parsed" /\ result.err = Nil)
    => \A a, b \in 1..Len(ClauseKeywords) :
           \A i \in Positions(query, ClauseKeywords[a]) :
               \A j \in Positions(query, ClauseKeywords[b]) : i < j => a < b

\* C9: every token the grammar requires is checked: when a required token
\* was found missing, ParseSelect returns an error.
RequiredTokensChecked ==
    (pc = "parsed" /\ parser.firstErr \in {"expected " \o t : t \in RequiredTokens})
    => result.err # Nil

\* C10: ParseSelect returns either a statement and a nil error or a nil
\* statement and an error, and it stops at the first error, a lexical error
\* met while refilling the lookahead included.
ParseSelectOneOutcome ==
    pc = "parsed"
    => /\ \/ result.stmt # NilNode /\ result.err = Nil
          \/ result.stmt = NilNode /\ result.err # Nil
       /\ parser.firstErr # Nil => result.err = parser.firstErr

(***************************************************************************)
(* The tree a chain stands for, read from its words by the precedence of   *)
(* the language definition: or < and < not < comparison < + - < * / % <    *)
(* unary + -, operators of one level grouping to the left.                 *)
(***************************************************************************)
RECURSIVE FieldsFrom(_, _, _)
\* the words of q from rune i on, word being the runes of the word under way
FieldsFrom(q, i, word) ==
    LET done == IF word = <<>> THEN <<>> ELSE <<word>>
    IN  IF i > Len(q) THEN done
        ELSE IF q[i] = " " THEN done \o FieldsFrom(q, i + 1, <<>>)
        ELSE FieldsFrom(q, i + 1, Append(word, q[i]))

\* the words of q: its maximal runs of runes other than the space
Fields(q) == FieldsFrom(q, 1, <<>>)

\* the chain of a query of ChainQueries: the words after where, or else the
\* words between select and from
ChainOf(q) ==
    LET ws == Fields(q)
        is == {i \in 1..Len(ws) : Str(ws[i]) = "where"}
    IN  IF is = {} THEN SubSeq(ws, 2, Len(ws) - 2)
        ELSE SubSeq(ws, (CHOOSE i \in is : TRUE) + 1, Len(ws))

\* the attribute of one part
Attr(name) == NewAttribute(<<name>>)

\* the tree of an operand of ExpOperands or PredOperands
OperandTree(w) ==
    LET a == Attr(<<"a">>)
        b == Attr(<<"b">>)
        p1 == NewCompBinaryApplication(Attr(<<"p">>), NewIntValue(1), "=").val
        q2 == NewCompBinaryApplication(Attr(<<"q">>), NewIntValue(2), "=").val
        a2 == NewIntBinaryApplication(a, NewIntValue(2), "+").val
    IN  CASE Str(w) = "2" -> NewIntValue(2)
          [] Str(w) = "-a" -> NewIntUnaryApplication(a, "-").val
          [] Str(w) = "f(b)" -> NewFunctionCall(<<"f">>, <<b>>)
          [] Str(w) = "(a+2)" -> a2
          [] Str(w) = "p=1" -> p1
          [] Str(w) = "a+2<b" -> NewCompBinaryApplication(a2, b, "<").val
          [] Str(w) = "((p=1)or(q=2))" -> NewBoolBinaryApplication(p1, q2, "or").val

\* the application of the binary operator written w
OperatorTree(left, right, w) ==
    IF Str(w) \in {"and", "or"} THEN NewBoolBinaryApplication(left, right, Str(w)).val
    ELSE NewIntBinaryApplication(left, right, Str(w)).val

\* the binary operators between the operands of a chain, lowest level first
ChainLevels == <<{"or"}, {"and"}, {"+", "-"}, {"*", "/", "%"}>>

RECURSIVE NotTree(_)
\* the tree of an operand after any number of the word not
NotTree(ws) ==
    IF Str(ws[1]) = "not" THEN NewPredUnaryApplication(NotTree(Tail(ws)), "not").val
    ELSE OperandTree(ws[1])

RECURSIVE PrecedenceTree(_, _)
\* the tree of the words ws whose operators are of the levels from level on:
\* the last operator of the lowest level is applied last
PrecedenceTree(ws, level) ==
    IF level > Len(ChainLevels) THEN NotTree(ws)
    ELSE LET is == {i \in 1..Len(ws) : Str(ws[i]) \in ChainLevels[level]}
             i == CHOOSE i \in is : \A j \in is : j <= i
         IN  IF is = {} THEN PrecedenceTree(ws, level + 1)
             ELSE OperatorTree(PrecedenceTree(SubSeq(ws, 1, i - 1), level),
                               PrecedenceTree(SubSeq(ws, i + 1, Len(ws)), level + 1),
                               ws[i])

\* the levels of precedence of the operators a word of a chain holds
WordLevels(w) ==
    CASE Str(w) = "or" -> {1}
      [] Str(w) = "and" -> {2}
      [] Str(w) = "not" -> {3}
      [] Str(w) = "p=1" -> {4}
      [] Str(w) = "a+2<b" -> {4, 5}
      [] Str(w) \in {"+", "-"} -> {5}
      [] Str(w) \in {"*", "/", "%"} -> {6}
      [] Str(w) = "-a" -> {7}
      [] OTHER -> {}

\* the levels of precedence of the operators of a chain
LevelsOf(chain) == UNION {WordLevels(chain[i]) : i \in 1..Len(chain)}

\* ParseSelect has returned on a query of one chain
ChainParsed == pc = "parsed" /\ query \in ChainQueries

\* the tree ParseSelect returned for the chain of the query
ParsedChain ==
    IF result.stmt.Where = NilNode THEN result.stmt.Selected[1] ELSE result.stmt.Where

\* C11: the parsed tree follows the precedence of the operators: unary + -,
\* then * / %, then binary + -, then comparison, then not, then and, then
\* or.  Every chain whose operators are of two levels or more parses
\* without error to the tree in which an operator of a higher level is
\* applied before its neighbours of a lower level.
PrecedenceRespected ==
    (ChainParsed /\ Cardinality(LevelsOf(ChainOf(query))) >= 2) =>
        /\ result.err = Nil
        /\ ParsedChain = PrecedenceTree(ChainOf(query), 1)

\* the query select 2 + -a * f(b) from 0x1 has been parsed to
\* (+ 2 (* (- a) (f b)))
PrecedenceWitness ==
    /\ pc = "parsed"
    /\ query = ExpQuery(<<<<"2">>, <<"+">>, <<"-","a">>, <<"*">>, <<"f","(","b",")">>>>)
    /\ result.err = Nil
    /\ result.stmt.Selected[1].Operator.Name = "+"
    /\ result.stmt.Selected[1].Right.Operator.Name = "*"
    /\ result.stmt.Selected[1].Right.Left.Operator.Name = "-"

\* the places of the binary operators between the operands of a chain
OperatorPlaces(ws) ==
    {i \in 1..Len(ws) : \E level \in 1..Len(ChainLevels) : Str(ws[i]) \in ChainLevels[level]}

\* the chain has two operands or more, joined by operators of one level
OneLevel(ws) ==
    /\ OperatorPlaces(ws) # {}
    /\ \E level \in 1..Len(ChainLevels) :
           \A i \in OperatorPlaces(ws) : Str(ws[i]) \in ChainLevels[level]

RECURSIVE LeftNest(_)
\* the tree that nests to the left: the last operator is applied to the tree
\* of all that stands before it and to the last operand
LeftNest(ws) ==
    LET is == OperatorPlaces(ws)
        i == CHOOSE i \in is : \A j \in is : j <= i
    IN  IF is = {} THEN NotTree(ws)
        ELSE OperatorTree(LeftNest(SubSeq(ws, 1, i - 1)),
                          NotTree(SubSeq(ws, i + 1, Len(ws))), ws[i])

\* C12: all binary operators are left-associative: a chain of two or more
\* operands joined by operators of one precedence level (+ -, or * / %, or
\* and, or or) parses to the tree that nests to the left.
LeftAssociative ==
    (ChainParsed /\ OneLevel(ChainOf(query))) =>
        /\ result.err = Nil
        /\ ParsedChain = LeftNest(ChainOf(query))

\* the query select 2 - 2 - 2 from 0x1 has been parsed to (- (- 2 2) 2)
LeftAssociativeWitness ==
    /\ pc = "parsed"
    /\ query = ExpQuery(<<<<"2">>, <<"-">>, <<"2">>, <<"-">>, <<"2">>>>)
    /\ result.err = Nil
    /\ result.stmt.Selected[1].Left.kind = "BinaryApplication"
    /\ result.stmt.Selected[1].Left.Operator.Name = "-"
    /\ result.stmt.Selected[1].Right = NewIntValue(2)

(***************************************************************************)
(* Letter case of the words of a query.  A word is a maximal run of        *)
(* letters, digits and underscores; it is a function name when "(" stands  *)
(* right after it and a reserved word when its lower-cased form is in      *)
(* the table of the lexer.                                                 *)
(***************************************************************************)
WordRune(c) == IsLetter(c) \/ IsDigit(c) \/ c = "_"

\* the first and the last rune of the word that rune i of q is part of
WordStart(q, i) == CHOOSE s \in 1..i :
    /\ \A k \in s..i : WordRune(q[k])
    /\ s = 1 \/ ~WordRune(q[s - 1])
WordEnd(q, i) == CHOOSE e \in i..Len(q) :
    /\ \A k \in i..e : WordRune(q[k])
    /\ e = Len(q) \/ ~WordRune(q[e + 1])

\* rune i of q is part of a function name
InFunctionName(q, i) ==
    /\ WordRune(q[i])
    /\ WordEnd(q, i) < Len(q)
    /\ q[WordEnd(q, i) + 1] = "("

\* rune i of q is part of a reserved word
InReservedWord(q, i) ==
    /\ WordRune(q[i])
    /\ Str(ToLower(SubSeq(q, WordStart(q, i), WordEnd(q, i)))) \in caseInsensitiveTokens

\* the query with its function names lower-cased
FoldFunctionNames(q) ==
    [i \in 1..Len(q) |-> IF InFunctionName(q, i) THEN ToLowerRune(q[i]) ELSE q[i]]

\* the query with its function names and its reserved words lower-cased
FoldReservedWords(q) ==
    [i \in 1..Len(q) |->
        IF InFunctionName(q, i) \/ InReservedWord(q, i) THEN ToLowerRune(q[i]) ELSE q[i]]

\* the two queries differ in the letter case of function names only
FunctionCaseOnly(q1, q2) == q1 # q2 /\ FoldFunctionNames(q1) = FoldFunctionNames(q2)

\* the two queries differ in letter case only, and not only in function names
AttributeCase(q1, q2) ==
    ToLower(q1) = ToLower(q2) /\ FoldFunctionNames(q1) # FoldFunctionNames(q2)

\* the two queries differ in letter case only, and not only in function names
\* and reserved words
IdentifierCase(q1, q2) ==
    ToLower(q1) = ToLower(q2) /\ FoldReservedWords(q1) # FoldReservedWords(q2)

\* Equals has returned on the trees of two queries
TreesCompared == pc = "compared"

\* the name of a function call is stored lower-cased
NameLowerCased(tree) ==
    tree.kind = "FunctionCall" => tree.FunctionName = ToLower(tree.FunctionName)

\* C13 as stated: two queries that differ only in the letter case of a
\* function name parse to Equal trees with the name stored lower-cased, and
\* two queries whose attributes differ in letter case parse to trees that
\* are not Equal.
FunctionNamesFoldAttributesDoNot ==
    TreesCompared =>
        /\ FunctionCaseOnly(kept.query, query) =>
               /\ equal.forth
               /\ NameLowerCased(kept.tree)
               /\ NameLowerCased(Compared(result.stmt))
        /\ AttributeCase(kept.query, query) => ~equal.forth

\* C13, amended: two queries that differ only in the letter case of a
\* function name parse to Equal trees with the name stored lower-cased, and
\* two queries whose attributes differ in the letter case of a part that is
\* not a reserved word parse to trees that are not Equal (a part that is a
\* reserved word in any letter case is lower-cased by the lexer).
FunctionNamesFoldIdentifiersDoNot ==
    TreesCompared =>
        /\ FunctionCaseOnly(kept.query, query) =>
               /\ equal.forth
               /\ NameLowerCased(kept.tree)
               /\ NameLowerCased(Compared(result.stmt))
        /\ IdentifierCase(kept.query, query) => ~equal.forth

\* the trees of select SUM(msg.value) from 0x1 and of select sum(msg.value)
\* from 0x1 have been compared, and those of two queries that differ in the
\* case of an attribute exist as well
FunctionNamesFoldWitness ==
    /\ TreesCompared
    /\ kept.query = <<"s","e","l","e","c","t"," ","S","U","M","(","m","s","g",".","v","a","l","u","e",")"," ","f","r","o","m"," ","0","x","1">>
    /\ query = <<"s","e","l","e","c","t"," ","s","u","m","(","m","s","g",".","v","a","l","u","e",")"," ","f","r","o","m"," ","0","x","1">>
    /\ equal.forth
    /\ kept.tree.FunctionName = <<"s", "u", "m">>

(***************************************************************************)
(* The select list a query of SelectListQueries stands for.                *)
(***************************************************************************)
RECURSIVE SplitAt(_, _)
\* the words between the words sep
SplitAt(ws, sep) ==
    LET is == {i \in 1..Len(ws) : ws[i] = sep}
        i == CHOOSE i \in is : \A j \in is : i <= j
    IN  IF is = {} THEN <<ws>>
        ELSE <<SubSeq(ws, 1, i - 1)>> \o SplitAt(SubSeq(ws, i + 1, Len(ws)), sep)

\* the elements of the select list of q, each the words of one element
ElemsOf(q) == SplitAt(ChainOf(q), <<",">>)

\* the element is followed by as <alias>
HasAlias(e) == Len(e) >= 3 /\ Str(e[Len(e) - 1]) = "as"

\* the expression of an element
ElemTree(e) == PrecedenceTree(IF HasAlias(e) THEN SubSeq(e, 1, Len(e) - 2) ELSE e, 1)

\* the elements of q that are followed by as alias
ElemsAs(q, alias) ==
    {i \in 1..Len(ElemsOf(q)) :
        HasAlias(ElemsOf(q)[i]) /\ ElemsOf(q)[i][Len(ElemsOf(q)[i])] = alias}

\* the aliases the select list of q names
AliasesOf(q) ==
    {ElemsOf(q)[i][Len(ElemsOf(q)[i])] :
        i \in {i \in 1..Len(ElemsOf(q)) : HasAlias(ElemsOf(q)[i])}}

\* C14: after a successful ParseSelect, selected is not empty and lists the
\* select elements in source order; every value of aliases is one of the
\* expressions of selected; aliases[x] is the expression that as x followed
\* (the last one when as x is written twice), and an element without as
\* adds no alias.
AliasesAreSelected ==
    (pc = "parsed" /\ result.err = Nil) =>
        /\ Len(result.stmt.Selected) >= 1
        /\ \A x \in DOMAIN result.stmt.Aliases :
               \E i \in 1..Len(result.stmt.Selected) :
                   result.stmt.Selected[i] = result.stmt.Aliases[x]
        /\ query \in SelectListQueries =>
               /\ result.stmt.Selected =
                      [i \in 1..Len(ElemsOf(query)) |-> ElemTree(ElemsOf(query)[i])]
               /\ DOMAIN result.stmt.Aliases = AliasesOf(query)
               /\ \A x \in AliasesOf(query) :
                      \E i \in ElemsAs(query, x) :
                          /\ \A j \in ElemsAs(query, x) : j <= i
                          /\ result.stmt.Aliases[x] = result.stmt.Selected[i]

\* the query select 2 + f(b) as x , -a from 0x1 has been parsed: two
\* expressions, the first of them under the alias x
AliasesWitness ==
    /\ pc = "parsed"
    /\ query = ExpQuery(<<<<"2">>, <<"+">>, <<"f","(","b",")">>, <<"a","s">>, <<"x">>, <<",">>, <<"-","a">>>>)
    /\ result.err = Nil
    /\ Len(result.stmt.Selected) = 2
    /\ DOMAIN result.stmt.Aliases = {<<"x">>}
    /\ result.stmt.Aliases[<<"x">>] = result.stmt.Selected[1]

(***************************************************************************)
(* The group by list a query of GroupByQueries stands for.                 *)
(***************************************************************************)
\* the elements of the group by list of q: the words after by, the commas
\* left out
GroupListOf(q) ==
    LET ws == Fields(q)
        i == CHOOSE i \in 1..Len(ws) : Str(ws[i]) = "by"
    IN  SelectSeq(SubSeq(ws, i + 1, Len(ws)), LAMBDA w : w # <<",">>)

\* the count an element blocks(n) or transactions(n) names
CountOf(w) ==
    CASE Str(w) = "blocks(1)" -> 1
      [] Str(w) = "blocks(2)" -> 2
      [] Str(w) = "transactions(3)" -> 3

\* the elements of the list that start with the keyword
ElemsOfKind(es, keyword) ==
    SelectSeq(es, LAMBDA w : HasPrefix(w, keyword \o <<"(">>))

\* the attribute a word stands for: its parts are the words between the dots
AttributeOf(w) == NewAttribute(SplitAt(w, "."))

\* the attribute elements of the list, in their order
AttributeElems(es) ==
    LET as == SelectSeq(es, LAMBDA w : ~\E i \in 1..Len(w) : w[i] = "(")
    IN  [i \in 1..Len(as) |-> AttributeOf(as[i])]

\* the count of the only element of its kind, or unset
OnlyCount(es) == IF es = <<>> THEN <<>> ELSE <<CountOf(es[1])>>

\* C15: in a group by list blocks(n) and transactions(n) may each appear at
\* most once: with a second blocks(...) or a second transactions(...)
\* ParseSelect returns an error; otherwise it returns a statement whose
\* BlocksCount and TransactionsCount are the value of the single occurrence
\* (or unset) and whose attributes are the attribute elements in source
\* order.
GroupByCountsOnce ==
    (pc = "parsed" /\ query \in GroupByQueries) =>
        LET es == GroupListOf(query)
            blocks == ElemsOfKind(es, <<"b","l","o","c","k","s">>)
            transactions ==
                ElemsOfKind(es, <<"t","r","a","n","s","a","c","t","i","o","n","s">>)
        IN  IF Len(blocks) > 1 \/ Len(transactions) > 1
            THEN result.err # Nil /\ result.stmt = NilNode
            ELSE /\ result.err = Nil
                 /\ result.stmt.GroupBy.BlocksCount = OnlyCount(blocks)
                 /\ result.stmt.GroupBy.TransactionsCount = OnlyCount(transactions)
                 /\ result.stmt.GroupBy.Attributes = AttributeElems(es)

\* the query select a from 0x1 group by b.c , blocks(1) , blocks(2) has been
\* refused at the second blocks(...)
GroupByTwiceWitness ==
    /\ pc = "parsed"
    /\ query = Join(<<<<"s","e","l","e","c","t">>, <<"a">>, <<"f","r","o","m">>, <<"0","x","1">>, <<"g","r","o","u","p">>, <<"b","y">>, <<"b",".","c">>, <<",">>, <<"b","l","o","c","k","s","(","1",")">>, <<",">>, <<"b","l","o","c","k","s","(","2",")">>>>)
    /\ result.err = "can only group once by blocks"

(***************************************************************************)
(* The negated forms of a predicate, read from the text of the where       *)
(* clause.                                                                 *)
(***************************************************************************)
\* the text of the where clause of q
PredicateOf(q) ==
    LET w == <<" ","w","h","e","r","e"," ">>
    IN  IF Positions(q, w) = {} THEN <<>>
        ELSE SubSeq(q, (CHOOSE i \in Positions(q, w) : TRUE) + Len(w), Len(q))

\* the text with the word not written after its first i runes
NotAfter(text, i) == SubSeq(text, 1, i) \o <<" ","n","o","t">> \o SubSeq(text, i + 1, Len(text))

\* negated is x is not t where text is x is t
IsNotOf(text, negated) ==
    \E i \in Positions(text, <<" ","i","s"," ">>) : negated = NotAfter(text, i + 2)

\* negated is x not in (...) where text is x in (...)
NotInOf(text, negated) ==
    \E i \in Positions(text, <<" ","i","n"," ">>) : negated = NotAfter(text, i - 1)

\* negated is not (p or q) where text is p or q
NotOverOf(text, negated) ==
    /\ Positions(text, <<" ","o","r"," ">>) # {}
    /\ negated = <<"n","o","t"," ","(">> \o text \o <<")">>

\* the query is a negated form of the query parsed before it
NegatedForm ==
    /\ TreesCompared
    /\ PredicateOf(kept.query) # <<>>
    /\ \/ IsNotOf(PredicateOf(kept.query), PredicateOf(query))
       \/ NotInOf(PredicateOf(kept.query), PredicateOf(query))
       \/ NotOverOf(PredicateOf(kept.query), PredicateOf(query))

\* C16: the negated forms are parsed as a not around the positive form:
\* x is not t, x not in (e1, ..., en) and not (p or q) parse to a not
\* application whose operand is the tree of x is t, of x in (e1, ..., en)
\* and of the whole disjunction p or q; the tree is Equal to NegatePredicate
\* of the positive parse.
NegatedFormsWrapPositive ==
    NegatedForm =>
        /\ Compared(result.stmt).kind = "PredUnaryApplication"
        /\ Compared(result.stmt).UnaryApplication.Operator.Name = "not"
        /\ Compared(result.stmt).UnaryApplication.Operand = kept.tree
        /\ Equals(NegatePredicate(kept.tree), Compared(result.stmt))
        /\ Equals(Compared(result.stmt), NegatePredicate(kept.tree))
        /\ ~equal.forth

\* the trees of select a from 0x1 where msg.sender is address and of
\* ... where msg.sender is not address have been compared
NegatedFormsWitness ==
    /\ NegatedForm
    /\ kept.query = <<"s","e","l","e","c","t"," ","a"," ","f","r","o","m"," ","0","x","1"," ","w","h","e","r","e"," ","m","s","g",".","s","e","n","d","e","r"," ","i","s"," ","a","d","d","r","e","s","s">>
    /\ query = <<"s","e","l","e","c","t"," ","a"," ","f","r","o","m"," ","0","x","1"," ","w","h","e","r","e"," ","m","s","g",".","s","e","n","d","e","r"," ","i","s"," ","n","o","t"," ","a","d","d","r","e","s","s">>
    /\ kept.tree.kind = "IsOperator"
    /\ Compared(result.stmt).UnaryApplication.Operand.kind = "IsOperator"

(***************************************************************************)
(* Identifiers                                                             *)
(***************************************************************************)
\* the word matches [A-Za-z_][A-Za-z0-9_]*
MatchesIdentifierPattern(w) ==
    /\ w # <<>>
    /\ w[1] \in Range(UpperRunes) \cup Range(LowerRunes) \cup {"_"}
    /\ \A i \in 1..Len(w) :
           w[i] \in Range(UpperRunes) \cup Range(LowerRunes) \cup Range(DigitRunes) \cup {"_"}

\* the word of a query of IdentifierQueries
WordOf(q) == ChainOf(q)[Len(ChainOf(q))]

\* C17: IsValidIdentifier(s) is true exactly when s matches
\* [A-Za-z_][A-Za-z0-9_]*, so that every part of an attribute and every
\* alias of a parsed statement matches that pattern.
IdentifiersMatchPattern ==
    (pc = "parsed" /\ query \in IdentifierQueries) =>
        /\ IsValidIdentifier(WordOf(query)) <=> MatchesIdentifierPattern(WordOf(query))
        /\ result.err = Nil =>
               /\ \A x \in DOMAIN result.stmt.Aliases : MatchesIdentifierPattern(x)
               /\ \A i \in 1..Len(result.stmt.Selected[1].Parts) :
                      MatchesIdentifierPattern(result.stmt.Selected[1].Parts[i])

(***************************************************************************)
(* Structure of a tree: its variant, its symbol (operator, function name,  *)
(* target, literal value, parts of an attribute) and its children.         *)
(***************************************************************************)
\* the application inside a predicate application, or else the node itself
Inner(n) ==
    CASE n.kind = "PredBinaryApplication" -> n.BinaryApplication
      [] n.kind = "PredUnaryApplication" -> n.UnaryApplication
      [] OTHER -> n

SymbolOf(n) ==
    CASE n.kind \in {"IntValue", "StringValue"} -> n.value
      [] n.kind = "Attribute" -> n.Parts
      [] n.kind \in {"BinaryApplication", "PredBinaryApplication", "UnaryApplication",
                     "PredUnaryApplication"} -> Inner(n).Operator.Name
      [] n.kind = "InOperator" -> "in"
      [] n.kind = "IsOperator" -> n.Target
      [] n.kind = "FunctionCall" -> n.FunctionName

ChildrenOf(n) ==
    CASE n.kind \in {"IntValue", "StringValue", "Attribute"} -> <<>>
      [] n.kind \in {"BinaryApplication", "PredBinaryApplication"} ->
            <<Inner(n).Left, Inner(n).Right>>
      [] n.kind \in {"UnaryApplication", "PredUnaryApplication"} -> <<Inner(n).Operand>>
      [] n.kind = "InOperator" -> <<n.Needle>> \o n.Haystack
      [] n.kind = "IsOperator" -> <<n.Operand>>
      [] n.kind = "FunctionCall" -> n.Arguments

\* same variant, same symbol, as many children, and the children Equal pair
\* by pair in order
SameStructure(a, b) ==
    /\ a.kind = b.kind
    /\ SymbolOf(a) = SymbolOf(b)
    /\ Len(ChildrenOf(a)) = Len(ChildrenOf(b))
    /\ \A i \in 1..Len(ChildrenOf(a)) : Equals(ChildrenOf(a)[i], ChildrenOf(b)[i])

\* C18: structural equality: a.Equals(b) is true iff a and b are the same
\* variant, have the same symbol and as many children, each pair of
\* children Equal in order; Equals is symmetric, and reflexive (the tree of
\* a query Equals the tree of the same query).
EqualsIsStructural ==
    TreesCompared =>
        /\ equal.forth <=> SameStructure(kept.tree, Compared(result.stmt))
        /\ equal.back <=> equal.forth
        /\ kept.query = query => equal.forth

\* the trees of x in (1, 2) and of x in (2, 1) have been compared: same
\* variant, as many children, the children in another order
EqualsWitness ==
    /\ TreesCompared
    /\ kept.query = <<"s","e","l","e","c","t"," ","a"," ","f","r","o","m"," ","0","x","1"," ","w","h","e","r","e"," ","x"," ","i","n"," ","(","1",","," ","2",")">>
    /\ query = <<"s","e","l","e","c","t"," ","a"," ","f","r","o","m"," ","0","x","1"," ","w","h","e","r","e"," ","x"," ","i","n"," ","(","2",","," ","1",")">>
    /\ ~equal.forth
    /\ ~equal.back

(***************************************************************************)
(* Evaluation of `select l op r from 0x1`: the operands and the operator   *)
(* are read from the words of the query.                                   *)
(***************************************************************************)
\* Execute has returned or panicked on a query of one operation
Executed ==
    /\ query \in ExecuteQueries
    /\ pc \in {"executed", "panic"}
    /\ result.stmt # NilNode

LeftWord == ChainOf(query)[1]
OperatorWord == Str(ChainOf(query)[2])
RightWord == ChainOf(query)[3]

\* the word is a decimal integer, with a minus sign or without
IsIntWord(w) == <<w>> \in IntOperands

RECURSIVE DecimalOf(_)
DecimalOf(ds) ==
    IF ds = <<>> THEN 0
    ELSE 10 * DecimalOf(SubSeq(ds, 1, Len(ds) - 1))
           + (CHOOSE d \in 0..9 : <<"0","1","2","3","4","5","6","7","8","9">>[d + 1] = ds[Len(ds)])

\* the integer a word of IntOperands stands for
IntOf(w) == IF w[1] = "-" THEN -DecimalOf(Tail(w)) ELSE DecimalOf(w)

Magnitude(a) == IF a < 0 THEN -a ELSE a

\* trunc(a/b): the quotient of the magnitudes, negative iff the signs differ
TruncQuo(a, b) ==
    IF (a < 0) = (b < 0) THEN Magnitude(a) \div Magnitude(b)
    ELSE -(Magnitude(a) \div Magnitude(b))

\* a - b*trunc(a/b): zero or of the sign of a
TruncRem(a, b) == a - b * TruncQuo(a, b)

\* C19: integer / truncates toward zero and % takes the sign of the
\* dividend: for all integers a and b with b # 0, a / b evaluates to
\* trunc(a/b) and a % b to a - b*trunc(a/b), with a nil error.
DivisionTruncates ==
    (/\ Executed
     /\ IsIntWord(LeftWord)
     /\ IsIntWord(RightWord)
     /\ IntOf(RightWord) # 0
     /\ OperatorWord \in {"/", "%"}) =>
        /\ pc = "executed"
        /\ outcome.err = Nil
        /\ outcome.val = NewIntValue(IF OperatorWord = "/"
                                     THEN TruncQuo(IntOf(LeftWord), IntOf(RightWord))
                                     ELSE TruncRem(IntOf(LeftWord), IntOf(RightWord)))

\* C20: division by zero is a runtime error value: when the left operand
\* of / or % evaluates to a value and the right operand to the integer 0,
\* Execute returns a non-nil error and no value, and does not panic.
DivisionByZeroIsAnError ==
    (/\ Executed
     /\ LeftWord # <<"a">>
     /\ IsIntWord(RightWord)
     /\ IntOf(RightWord) = 0
     /\ OperatorWord \in {"/", "%"}) =>
        /\ pc = "executed"
        /\ outcome.panic = Nil
        /\ outcome.err # Nil
        /\ outcome.val = NilNode

(***************************************************************************)
(* Evaluation of `where p and q`, `where p or q` and `where not p` for     *)
(* comparisons p and q of integer literals.                                *)
(***************************************************************************)
\* ExecuteBool has returned or panicked on the predicate of the query
ExecutedBool(queries) ==
    /\ query \in queries
    /\ pc \in {"executedBool", "panic"}
    /\ result.stmt # NilNode

\* what the comparison l op r of integer literals is
Holds(c) ==
    LET l == IntOf(c[1])
        r == IntOf(c[3])
    IN  CASE Str(c[2]) = ">" -> l > r
          [] Str(c[2]) = "<" -> l < r
          [] Str(c[2]) = "=" -> l = r
          [] Str(c[2]) = "<>" -> l # r

\* what the predicate of a query of LogicQueries is
LogicValue(ws) ==
    IF Str(ws[1]) = "not" THEN ~Holds(SubSeq(ws, 2, 4))
    ELSE IF Str(ws[4]) = "and" THEN Holds(SubSeq(ws, 1, 3)) /\ Holds(SubSeq(ws, 5, 7))
    ELSE Holds(SubSeq(ws, 1, 3)) \/ Holds(SubSeq(ws, 5, 7))

\* C21: the logical operators evaluate over booleans: when the operands
\* evaluate to booleans without error, ExecuteBool of an and application
\* returns their conjunction, of an or application their disjunction and of
\* a not application the negation, with a nil error.
LogicalOperatorsEvaluate ==
    ExecutedBool(LogicQueries) =>
        /\ pc = "executedBool"
        /\ outcome.err = Nil
        /\ outcome.val = LogicValue(ChainOf(query))

(***************************************************************************)
(* Apply on every operator and every combination of operand variants.      *)
(***************************************************************************)
\* Apply has returned or panicked
Applied == pc \in {"applied", "panic"}

\* the variant of operand an operator is declared for, and of its result
OperandVariant(o) ==
    IF o.Name \in boolBinaryOperators \cup boolUnaryOperators THEN "BoolValue" ELSE "IntValue"

ResultVariant(o) ==
    IF o.Operator \in {"wrapIntBinary", "wrapIntUnary"} THEN "IntValue" ELSE "BoolValue"

OperandsAsDeclared ==
    \A i \in 1..Len(call.operands) : call.operands[i].kind = OperandVariant(call.operator)

\* C22: a type mismatch at operator application is a returned error, never
\* an abort: for every operator and every combination of operand variants
\* Apply returns a value of the operator's result type with a nil error when
\* the operands are of the operator's operand type, and a non-nil error
\* when an operand is of another variant; it never panics.
TypeMismatchIsAnError ==
    Applied =>
        /\ outcome.panic = Nil
        /\ OperandsAsDeclared =>
              outcome.err = Nil /\ outcome.val.kind = ResultVariant(call.operator)
        /\ ~OperandsAsDeclared => outcome.err # Nil

\* Execute has returned or panicked on the selected expression of the query
ExecutedOn(queries) ==
    /\ query \in queries
    /\ pc \in {"executed", "panic"}
    /\ result.stmt # NilNode

\* C23: Attribute.Execute resolves the dotted path against the environment:
\* it returns the value bound to the path with a nil error, or a non-nil
\* error when the path is not bound; never a nil value with a nil error.
AttributeResolves ==
    (ExecutedOn(AttributeQueries) /\ result.stmt.Selected[1].kind = "Attribute") =>
        /\ pc = "executed"
        /\ (outcome.val # NilNode /\ outcome.err = Nil)
              \/ (outcome.val = NilNode /\ outcome.err # Nil)

(***************************************************************************)
(* Evaluation of `where n in ( e , e ... )`, read from the words of the    *)
(* query: what each element evaluates to and which function it calls.      *)
(***************************************************************************)
\* the needle and the elements of the haystack, in order
InWords(q) ==
    LET ws == ChainOf(q)
    IN  <<ws[1]>> \o [i \in 1..((Len(ws) - 3) \div 2) |-> ws[2 * i + 2]]

IsCallWord(w) == w[Len(w)] = ")"
IsStringWord(w) == w[1] = "\""
IsNumberWord(w) == w[1] \in {"0", "1", "2", "3", "4", "5", "6", "7", "8", "9"}
IsAttributeWord(w) == ~IsCallWord(w) /\ ~IsStringWord(w) /\ ~IsNumberWord(w)

\* the name of the function of a call f(d) and the call as the
\* environment sees it
CalledName(w) == Str(SubSeq(w, 1, Len(w) - 3))
CallOf(w) == [name |-> CalledName(w), args |-> <<NewIntValue(DecimalOf(<<w[Len(w) - 1]>>))>>]

WordFails(w) == IsCallWord(w) /\ CalledName(w) = "fail"

VariantOfWord(w) == IF IsStringWord(w) THEN "StringValue" ELSE "IntValue"
ContentOfWord(w) ==
    IF IsStringWord(w) THEN SubSeq(w, 2, Len(w) - 1)
    ELSE IF IsCallWord(w) THEN 1
    ELSE DecimalOf(w)

SameValueWords(v, w) ==
    VariantOfWord(v) = VariantOfWord(w) /\ ContentOfWord(v) = ContentOfWord(w)

\* the calls of the words ws, in order
RECURSIVE CallsOfWords(_)
CallsOfWords(ws) ==
    IF ws = <<>> THEN <<>>
    ELSE (IF IsCallWord(Head(ws)) THEN <<CallOf(Head(ws))>> ELSE <<>>) \o CallsOfWords(Tail(ws))

\* the words up to the first that fails, or all
UpToFirstFailure(ws) ==
    IF \E i \in 1..Len(ws) : WordFails(ws[i])
    THEN SubSeq(ws, 1, CHOOSE i \in 1..Len(ws) :
                           WordFails(ws[i]) /\ \A j \in 1..(i - 1) : ~WordFails(ws[j]))
    ELSE ws

\* C24: IN evaluates the needle first and then every element of the
\* haystack in order; if one of these evaluations fails the result is that
\* first error, even when an earlier element equals the needle; otherwise
\* the result is true iff a value of the haystack is equal to the value of
\* the needle (same variant, same content).
InEvaluates ==
    ExecutedBool(InQueries) =>
        LET ws == InWords(query)
        IN  /\ pc = "executedBool"
            /\ outcome.calls = CallsOfWords(UpToFirstFailure(ws))
            /\ IF \E i \in 1..Len(ws) : WordFails(ws[i])
               THEN outcome.err = "fail" /\ outcome.val = FALSE
               ELSE /\ outcome.err = Nil
                    /\ (\A i \in 1..Len(ws) : ~IsAttributeWord(ws[i])) =>
                          (outcome.val <=> \E i \in 2..Len(ws) : SameValueWords(ws[1], ws[i]))

(***************************************************************************)
(* Evaluation of `select l + r from 0x1` and of `select f ( e , e ... )    *)
(* from 0x1`, read from the words of the query.  The calls of the builtin  *)
(* functions show which children were evaluated, and in which order.       *)
(***************************************************************************)
IsCallQuery(q) == Str(ChainOf(q)[2]) = "("

\* the children of the application or of the call, in order
ChildWords(q) ==
    LET ws == ChainOf(q)
    IN  IF IsCallQuery(q) THEN [i \in 1..((Len(ws) - 2) \div 2) |-> ws[2 * i + 1]]
        ELSE <<ws[1], ws[3]>>

SomeChildFails(q) == \E i \in 1..Len(ChildWords(q)) : WordFails(ChildWords(q)[i])

\* the value a child that does not fail evaluates to
ValueOfWord(w) ==
    IF IsStringWord(w) THEN NewStringValue(ContentOfWord(w)) ELSE NewIntValue(ContentOfWord(w))

\* the call of the function of a call query, after its arguments
OuterCall(q) ==
    [name |-> Str(ChainOf(q)[1]),
     args |-> [i \in 1..Len(ChildWords(q)) |-> ValueOfWord(ChildWords(q)[i])]]

\* C25: children are evaluated strictly left to right, and when a child
\* returns an error Execute returns that error at once: no later sibling is
\* evaluated, the operator is not applied, the builtin is not invoked; an
\* unknown function is reported only after all its arguments evaluated
\* without error.
FirstErrorInOrder ==
    ExecutedOn(OrderQueries) =>
        /\ pc = "executed"
        /\ IF SomeChildFails(query)
           THEN /\ outcome.calls = CallsOfWords(UpToFirstFailure(ChildWords(query)))
                /\ outcome.err = "fail"
                /\ outcome.val = NilNode
           ELSE IF ~IsCallQuery(query)
           THEN /\ outcome.calls = CallsOfWords(ChildWords(query))
                /\ outcome.err = Nil
                      <=> \A i \in 1..2 : VariantOfWord(ChildWords(query)[i]) = "IntValue"
           ELSE IF Str(ChainOf(query)[1]) = "nope"
           THEN /\ outcome.calls = CallsOfWords(ChildWords(query))
                /\ outcome.err = "unkonwn function"
           ELSE /\ outcome.calls = Append(CallsOfWords(ChildWords(query)), OuterCall(query))
                /\ outcome.err = Nil <=> Str(ChainOf(query)[1]) = "one"

\* fail(3) + one(1) has been executed: fail was called, one was not, and
\* the error is that of fail
FirstErrorWitness ==
    /\ ExecutedOn(OrderQueries)
    /\ query = <<"s","e","l","e","c","t"," ","f","a","i","l","(","3",")"," ","+"," ","o","n","e","(","1",")"," ","f","r","o","m"," ","0","x","1">>
    /\ outcome.err = "fail"
    /\ Len(outcome.calls) = 1
    /\ outcome.calls[1].name = "fail"

\* C26: an identifier may start with an underscore: for every word w
\* matching [A-Za-z_][A-Za-z0-9_]* the lexer emits w as one token, so that
\* `select w from 0x1` parses with the attribute w as its selected
\* expression.
UnderscoreStartsIdentifier ==
    (/\ pc = "parsed"
     /\ query \in IdentifierQueries
     /\ Len(ChainOf(query)) = 1
     /\ MatchesIdentifierPattern(WordOf(query))) =>
        /\ result.err = Nil
        /\ result.stmt.Selected = <<Attr(WordOf(query))>>

(***************************************************************************)
(* Comparisons with parentheses: `where ( e1 ) op e2` and                  *)
(* `where ( e1 op e2 )`.                                                   *)
(***************************************************************************)
\* the words of the predicate without its parentheses: e1 op e2
Unparenthesized(q) == SelectSeq(ChainOf(q), LAMBDA w : w \notin {<<"(">>, <<")">>})

\* the tree of a number or of an attribute of one part
AtomTree(w) == IF IsNumberWord(w) THEN NewIntValue(DecimalOf(w)) ELSE Attr(w)

\* the tree of x or of x op y
ArithmeticTree(ws) ==
    IF Len(ws) = 1 THEN AtomTree(ws[1])
    ELSE NewIntBinaryApplication(AtomTree(ws[1]), AtomTree(ws[3]), Str(ws[2])).val

\* the comparison (op e1 e2) of the words e1 op e2
ComparisonTree(ws) ==
    LET i == CHOOSE i \in 1..Len(ws) : Str(ws[i]) \in comparisonBinaryOperators
    IN  NewCompBinaryApplication(ArithmeticTree(SubSeq(ws, 1, i - 1)),
                                 ArithmeticTree(SubSeq(ws, i + 1, Len(ws))),
                                 Str(ws[i])).val

\* C27: a predicate may begin with a parenthesized arithmetic expression:
\* `where ( e1 ) op e2` parses to the comparison (op e1 e2), as
\* `where e1 op e2` does, and `where ( p )` parses to p.
ParenthesizedExpressionCompares ==
    (pc = "parsed" /\ query \in ParenQueries) =>
        /\ result.err = Nil
        /\ result.stmt.Where = ComparisonTree(Unparenthesized(query))

(***************************************************************************)
(* Integer literals of the clauses.                                        *)
(***************************************************************************)
\* the value every literal of LiteralWords denotes as a decimal or a
\* 0x-prefixed hexadecimal number, -1 for a word that is no such number or
\* denotes a number above 2^63 - 1
LiteralValues ==
    <<0, 7, 7, 16, 255, 255, 0,
      2147483647, 2147483647,
      -1, -1,
      -1, -1,
      -1, -1, -1, -1>>

\* the field of the statement in which the clause c stores its literal
StoredLiteral(c) ==
    CASE c = 1 -> <<result.stmt.Since.Number>>
      [] c = 2 -> <<result.stmt.Until.Number>>
      [] c = 3 -> result.stmt.Limit
      [] c = 4 -> result.stmt.Offset
      [] c = 5 -> result.stmt.GroupBy.BlocksCount
      [] c = 6 -> result.stmt.GroupBy.TransactionsCount

\* C28: the literal of since, until, limit, offset, blocks(...) and
\* transactions(...) is stored with exactly its decimal or 0x-hexadecimal
\* value when that value is in 0 .. 2^63-1; a literal above 2^63-1 and a
\* token that is not a number make ParseSelect return an error, so that no
\* value is wrapped modulo 2^64.
LiteralsAreExact ==
    \A c \in DOMAIN LiteralClauses, i \in DOMAIN LiteralWords :
        (pc = "parsed" /\ query = LiteralQuery(LiteralClauses[c], LiteralWords[i])) =>
            IF LiteralValues[i] >= 0
            THEN result.err = Nil /\ StoredLiteral(c) = <<LiteralValues[i]>>
            ELSE result.err # Nil

\* `group by transactions ( 0x7fffffff )` stored 2147483647
LiteralsWitness ==
    /\ pc = "parsed"
    /\ query = LiteralQuery(LiteralClauses[6], LiteralWords[9])
    /\ result.err = Nil
    /\ result.stmt.GroupBy.TransactionsCount = <<2147483647>>

\* `limit 18446744073709551617` is an error, and not the limit 1
LiteralsRangeWitness ==
    /\ pc = "parsed"
    /\ query = LiteralQuery(LiteralClauses[3], LiteralWords[12])
    /\ result.err = "value out of range"

\* C29: a successful ParseSelect has consumed the whole token stream: when
\* it returns a statement and a nil error, the lookahead buffer of the
\* parser is empty and the lexer has no token left; a query with a token
\* after its last clause, as `select a from 0x1 foo`, is rejected.
ParseSelectConsumesAll ==
    (pc = "parsed" /\ result.err = Nil) =>
        /\ Len(parser.buffer) = 0
        /\ ~parser.hasNext

(***************************************************************************)
(* The registry of destinations and the list the store holds.              *)
(***************************************************************************)
\* the list persisted under DestinationsKey
Persisted == IF alerter.db = <<>> THEN <<>> ELSE Unmarshal(alerter.db[1])

\* C30: after any sequence of RegisterDestination calls, with a Put that
\* may fail, duplicate registrations and unknown transports, the list
\* persisted under DestinationsKey holds exactly the destinations of the
\* in-memory registry, each once.
RegistryIsPersisted ==
    pc \in {"registered", "panic"} =>
        /\ Range(Persisted) = Keys(alerter)
        /\ Len(Persisted) = Cardinality(Keys(alerter))

\* the second registration of a destination whose Put failed: it is in the
\* registry, the call returns false and nil, and the store holds nothing
RegistryRetry ==
    /\ pc = "registered"
    /\ call.destination \in Keys(alerter)
    /\ outcome = [ok |-> FALSE, err |-> Nil]
    /\ alerter.db = <<>>
====
